---- MODULE Spec2Model ----
(***************************************************************************)
(* Sprint lifecycle and audit engine of the sprint-backlog backend.        *)
(*                                                                         *)
(* The store is the relational database behind the repositories: the      *)
(* sprints table, the backlog_items table and the two history ledgers.     *)
(* Every API request is served by an independent worker; a worker's        *)
(* repository calls are separate steps that interleave with the steps of   *)
(* the other workers (there is no transaction around a service call).      *)
(* The read-back a service does after its last write (GetByID or           *)
(* GetItemsBySprintID for the response body) touches no state and is       *)
(* folded into the step that returns.                                      *)
(***************************************************************************)
EXTENDS Integers, Sequences, FiniteSets, TLC

(***************************************************************************)
(* Bounds of the model.                                                    *)
(***************************************************************************)
MaxSprints == 3
MaxDate == 3
MaxCalls == 3
NumItems == 2
MaxPoints == 2
MaxRows == 2
MaxTime == 2
MaxLimit == 2

\* the workers serving requests, and the projects the requests name
Procs == {"w1", "w2"}
Projects == {"alpha", "beta"}
SprintIds == 1..MaxSprints
Dates == 0..MaxDate
ItemIds == 1..NumItems
Users == {"u1", "u2"}
Times == 1..MaxTime
Limits == -1..MaxLimit

(***************************************************************************)
(* Values.                                                                 *)
(***************************************************************************)
Nil == 0
NoValue == -1
Null == "null"
NoProject == "none"

SprintStatusPlanning == "Planning"
SprintStatusActive == "Active"
SprintStatusCompleted == "Completed"
SprintStatusCancelled == "Cancelled"
SprintStatuses ==
  {SprintStatusPlanning, SprintStatusActive, SprintStatusCompleted, SprintStatusCancelled}

ItemStatusNew == "New"
ItemStatusDone == "Done"
ItemStatuses == {"New", "Ready", "In Progress", "Done", "Archived"}

ItemTypeTask == "Task"
ItemTypes == {"Story", "Bug", "Task", "Epic"}
PriorityMedium == "Medium"
Priorities == {"Critical", "High", "Medium", "Low"}

SprintActionCreated == "Created"
SprintActionStarted == "Started"
SprintActionItemAdded == "ItemAdded"
SprintActionItemRemoved == "ItemRemoved"
SprintActionCompleted == "Completed"
SprintActionCancelled == "Cancelled"

ItemActionSprintAssigned == "SprintAssigned"
ItemActionSprintRemoved == "SprintRemoved"
ItemActionStatusChanged == "StatusChanged"
ItemActionCreated == "Created"
ItemActionPriorityChanged == "PriorityChanged"
ItemActionLabelAdded == "LabelAdded"
ItemActionLabelRemoved == "LabelRemoved"

ErrSprintNotFound == "SprintNotFound"
ErrSprintAlreadyActive == "SprintAlreadyActive"
ErrSprintNotPlanning == "SprintNotPlanning"
ErrSprintNotActive == "SprintNotActive"
ErrInvalidDateRange == "InvalidDateRange"
ErrItemAlreadyInSprint == "ItemAlreadyInSprint"
ErrItemNotInSprint == "ItemNotInSprint"
ErrBacklogItemNotFound == "ItemNotFound"
ErrInvalidStatus == "InvalidStatus"
ErrInvalidItemType == "InvalidItemType"
ErrInvalidPriority == "InvalidPriority"
ErrEmptyLabel == "label cannot be empty"
ErrProjectKeyExists == "ProjectKeyExists"
\* the error of the store when an insert breaks a unique index
ErrDuplicatedKey == "duplicate key value violates unique constraint"
Ok == "ok"

\* the status codes of the responses
StatusOK == 200
StatusCreated == 201
StatusBadRequest == 400
StatusNotFound == 404
StatusConflict == 409
StatusInternalServerError == 500

VARIABLES
  sprints,        \* sprints table: id -> row
  items,          \* backlog_items table: id -> row
  sprintHistory,  \* sprint_history ledger, in insertion order
  itemHistory,    \* item_history ledger, in insertion order
  procs,          \* per worker: the request it serves and its locals
  budget,         \* calls still to begin, ledger inserts still to fail, and
                  \* what a sequential client noted when its call began
  projects        \* projects table: id -> row

vars == <<sprints, items, sprintHistory, itemHistory, procs, budget, projects>>

(***************************************************************************)
(* Rows.                                                                   *)
(***************************************************************************)
NoSprint ==
  [exists |-> FALSE, deleted |-> FALSE, project |-> NoProject, start |-> 0, end |-> 0,
   status |-> SprintStatusPlanning, velocity |-> NoValue,
   name |-> << >>, goal |-> << >>]

NoItem ==
  [exists |-> FALSE, deleted |-> FALSE, sprint |-> Nil, status |-> ItemStatusNew,
   points |-> NoValue, project |-> NoProject, position |-> 0,
   type |-> ItemTypeTask, priority |-> PriorityMedium, labels |-> << >>,
   labelsNull |-> FALSE]

\* labelsNull: the labels column holds NULL, as it does after an insert of a
\* nil slice; labels is then the empty list the row scans to
\* a request field that is absent: "" for a string, nil for a pointer; a
\* slice field is the set of the one list it holds, empty for nil
Absent == ""
NoReq ==
  [status |-> Absent, points |-> NoValue, sprint |-> NoValue, type |-> Absent,
   priority |-> Absent, labels |-> {}, label |-> << >>,
   project |-> NoProject]

NoReport ==
  [totalItems |-> 0, completedItems |-> 0, totalStoryPoints |-> 0,
   completedStoryPoints |-> 0, completionPercentage |-> 0, velocity |-> 0]

\* response.UserActivitiesResponse
NoActivities == [activities |-> << >>, total |-> 0, limit |-> 0]

\* response.ProjectListResponse, SprintListResponse, BacklogListResponse
NoList == [rows |-> << >>, total |-> 0, page |-> 0, limit |-> 0, totalPages |-> 0]

NoUser == "nobody"

IdleProc ==
  [op |-> "none", pc |-> "idle", sid |-> Nil, iid |-> Nil, sprint |-> NoSprint,
   item |-> NoItem, req |-> NoReq, velocity |-> 0, changes |-> {},
   old |-> Nil, dropped |-> 0, res |-> "none", report |-> NoReport,
   user |-> NoUser, limit |-> 0, rows |-> << >>, acts |-> NoActivities,
   http |-> 0, key |-> << >>, page |-> 0, list |-> NoList]

SprintHistoryRow(sprintID, itemID, action, oldValue, newValue) ==
  [sprint |-> sprintID, item |-> itemID, action |-> action,
   old |-> oldValue, new |-> newValue]

ItemHistoryRow(itemID, action, field, oldValue, newValue) ==
  [item |-> itemID, action |-> action, field |-> field,
   old |-> oldValue, new |-> newValue]

(***************************************************************************)
(* Strings, as the sequences of their characters.                          *)
(***************************************************************************)
Space == " "

RECURSIVE TrimLeft(_)
TrimLeft(label) ==
  IF label # << >> /\ Head(label) = Space THEN TrimLeft(Tail(label)) ELSE label

RECURSIVE TrimRight(_)
TrimRight(label) ==
  IF label # << >> /\ label[Len(label)] = Space
    THEN TrimRight(SubSeq(label, 1, Len(label) - 1)) ELSE label

\* strings.TrimSpace
TrimSpace(label) == TrimRight(TrimLeft(label))

(***************************************************************************)
(* sprintRepository.                                                       *)
(***************************************************************************)
\* a row the queries see: present and not soft-deleted
Visible(s) == sprints[s].exists /\ ~sprints[s].deleted

\* GetByID: the row, or nil (NoSprint) when no visible row has the id
SprintGetByID(id) ==
  IF id \in SprintIds /\ Visible(id) THEN sprints[id] ELSE NoSprint

GetActiveWrongStatus(projectID) ==
  {s \in SprintIds : Visible(s) /\ sprints[s].project = projectID
                      /\ sprints[s].status = SprintStatusCompleted}

\* GetActive: the visible rows of the project with status Active; the
\* query returns the first of them, or nil when there is none
GetActive(projectID) ==
  {s \in SprintIds : Visible(s) /\ sprints[s].project = projectID
                      /\ sprints[s].status = SprintStatusActive}

\* UpdateStatus: UPDATE sprints SET status WHERE id (and not deleted)
SprintUpdateStatus(id, status) ==
  IF Visible(id) THEN [sprints EXCEPT ![id].status = status] ELSE sprints

\* Update: db.Save writes every column of the struct the caller holds.  On
\* a row that was soft-deleted meanwhile the UPDATE matches nothing; Save
\* then either stops there or falls back to an upsert of the whole struct
\* (deleted_at included), depending on the ORM release.
SprintSave(id, row) ==
  IF Visible(id) THEN {[sprints EXCEPT ![id] = row]}
  ELSE {sprints, [sprints EXCEPT ![id] = row]}

\* a backlog row the queries see
ItemVisible(i) == items[i].exists /\ ~items[i].deleted

GetItemsOfAnySprint(sprintID) == {i \in ItemIds : ItemVisible(i)}

\* GetItemsBySprintID
GetItemsBySprintID(sprintID) ==
  {i \in ItemIds : ItemVisible(i) /\ items[i].sprint = sprintID}

RECURSIVE SumPoints(_)
SumPoints(S) ==
  IF S = {} THEN 0
  ELSE LET i == CHOOSE x \in S : TRUE
       IN (IF items[i].points = NoValue THEN 0 ELSE items[i].points)
            + SumPoints(S \ {i})

\* CalculateVelocity: COALESCE(SUM(story_points), 0) over the Done items of
\* the sprint
CalculateVelocity(sprintID) ==
  SumPoints({i \in ItemIds : ItemVisible(i) /\ items[i].sprint = sprintID
                              /\ items[i].status = ItemStatusDone})

\* the smallest id no row has used: the id BeforeCreate gives a new sprint
NewSprintId == CHOOSE s \in SprintIds :
  ~sprints[s].exists /\ \A t \in SprintIds : t < s => sprints[t].exists

(***************************************************************************)
(* backlogRepository.                                                      *)
(***************************************************************************)
BacklogGetByID(id) ==
  IF id \in ItemIds /\ ItemVisible(id) THEN items[id] ELSE NoItem

\* Update: db.Save of the struct the caller holds, as for a sprint.  The
\* columns written are the struct's own fields (sprint_id among them); the
\* Sprint and Project relations GetByID preloaded are taken as left alone.
BacklogSave(id, row) ==
  IF ItemVisible(id) THEN {[items EXCEPT ![id] = row]}
  ELSE {items, [items EXCEPT ![id] = row]}

\* Delete: db.Delete on a model with a DeletedAt column marks the row
BacklogDelete(id) ==
  IF ItemVisible(id) THEN [items EXCEPT ![id].deleted = TRUE] ELSE items

\* UpdatePriority: UPDATE backlog_items SET priority WHERE id
BacklogUpdatePriority(id, priority) ==
  IF ItemVisible(id) THEN [items EXCEPT ![id].priority = priority] ELSE items

RECURSIVE MaxOf(_)
MaxOf(S) ==
  IF S = {} THEN 0
  ELSE LET x == CHOOSE y \in S : TRUE
           m == MaxOf(S \ {x})
       IN IF x > m THEN x ELSE m

\* GetMaxPosition: COALESCE(MAX(position), 0) over the project's rows that
\* are not marked deleted
GetMaxPosition(projectID) ==
  MaxOf({items[i].position : i \in {j \in ItemIds :
           ItemVisible(j) /\ items[j].project = projectID}})

\* the ids no row has used; BeforeCreate gives a new item the smallest
FreeItemIds == {i \in ItemIds : ~items[i].exists}
NewItemId == CHOOSE i \in FreeItemIds : \A j \in FreeItemIds : i <= j

\* UpdateStatus: UPDATE backlog_items SET status WHERE id
BacklogUpdateStatus(id, status) ==
  IF ItemVisible(id) THEN [items EXCEPT ![id].status = status] ELSE items

(***************************************************************************)
(* Worker bookkeeping.                                                     *)
(***************************************************************************)
Idle(p) == procs[p].pc = "idle"

\* a worker takes a new request
Begin(p, op, sid, iid) ==
  [IdleProc EXCEPT !.op = op, !.sid = sid, !.iid = iid]

\* SprintHandler: the response each handler's switch sends for what the
\* service returned; an error the switch does not name is an internal error
SprintHandlerRespond(op, err) ==
  IF err = Ok THEN IF op = "Create" THEN StatusCreated ELSE StatusOK
  ELSE IF err = ErrSprintNotFound /\ op # "Create" THEN StatusNotFound
  ELSE IF err = ErrBacklogItemNotFound /\ op \in {"AddItem", "RemoveItem"}
    THEN StatusNotFound
  ELSE IF err = ErrInvalidDateRange /\ op \in {"Create", "Update"}
    THEN StatusBadRequest
  ELSE IF err = ErrSprintNotPlanning /\ op = "Start" THEN StatusBadRequest
  ELSE IF err = ErrSprintNotActive /\ op \in {"Complete", "Cancel"}
    THEN StatusBadRequest
  ELSE IF err = ErrItemNotInSprint /\ op = "RemoveItem" THEN StatusBadRequest
  ELSE IF err = ErrSprintAlreadyActive /\ op = "Start" THEN StatusConflict
  ELSE IF err = ErrItemAlreadyInSprint /\ op = "AddItem" THEN StatusConflict
  ELSE StatusInternalServerError

\* BacklogHandler
BacklogHandlerRespond(op, err) ==
  IF err = Ok THEN IF op = "CreateItem" THEN StatusCreated ELSE StatusOK
  ELSE IF err = ErrBacklogItemNotFound /\ op # "CreateItem" THEN StatusNotFound
  ELSE IF err = ErrInvalidItemType /\ op \in {"CreateItem", "UpdateItem"}
    THEN StatusBadRequest
  ELSE IF err = ErrInvalidPriority
            /\ op \in {"CreateItem", "UpdateItem", "UpdatePriority"}
    THEN StatusBadRequest
  ELSE IF err = ErrInvalidStatus
            /\ op \in {"CreateItem", "UpdateItem", "UpdateStatus"}
    THEN StatusBadRequest
  ELSE StatusInternalServerError

\* UserHandler.GetActivities
UserHandlerRespond(op, err) ==
  IF err = Ok THEN StatusOK ELSE StatusInternalServerError

\* ProjectHandler
ProjectHandlerRespond(op, err) ==
  IF err = Ok THEN IF op = "CreateProject" THEN StatusCreated ELSE StatusOK
  ELSE IF err = ErrProjectKeyExists /\ op = "CreateProject" THEN StatusConflict
  ELSE StatusInternalServerError

SprintHandlerOps ==
  {"Create", "Update", "Delete", "Start", "Complete", "Cancel", "AddItem",
   "RemoveItem", "GetReport", "ListSprints"}

\* the handler the router gives the request to
Respond(op, err) ==
  IF op \in SprintHandlerOps THEN SprintHandlerRespond(op, err)
  ELSE IF op = "GetActivities" THEN UserHandlerRespond(op, err)
  ELSE IF op \in {"CreateProject", "ListProjects"} THEN ProjectHandlerRespond(op, err)
  ELSE BacklogHandlerRespond(op, err)

\* the service call returns r to the handler, which sends the response
Return(pr, r) ==
  [pr EXCEPT !.pc = "idle", !.res = r, !.sprint = NoSprint, !.item = NoItem,
             !.req = NoReq, !.changes = {}, !.http = Respond(pr.op, r)]

CanCall == budget.calls > 0

\* what a client that calls AddItem and then RemoveItem notes when each call
\* begins: the item's sprint reference and the length of both ledgers
NoMark ==
  [stage |-> "none", sid |-> Nil, iid |-> Nil, prior |-> Nil, sh |-> 0, ih |-> 0,
   dropped |-> 0, prior0 |-> Nil, sh0 |-> 0, ih0 |-> 0]

Mark(p, op, sid, iid) ==
  LET now == [NoMark EXCEPT
                !.sid = sid, !.iid = iid,
                !.prior = BacklogGetByID(iid).sprint,
                !.sh = Len(sprintHistory), !.ih = Len(itemHistory),
                !.prior0 = BacklogGetByID(iid).sprint,
                !.sh0 = Len(sprintHistory), !.ih0 = Len(itemHistory)]
  IN IF ~budget.observe THEN NoMark
     ELSE IF op = "AddItem" THEN [now EXCEPT !.stage = "add"]
     ELSE IF op = "RemoveItem"
       THEN IF /\ budget.mark.stage = "add"
               /\ budget.mark.sid = sid /\ budget.mark.iid = iid
               /\ procs[p].op = "AddItem" /\ procs[p].res = Ok
              THEN [now EXCEPT !.stage = "pair",
                               !.prior = budget.mark.prior,
                               !.sh = budget.mark.sh, !.ih = budget.mark.ih,
                               !.dropped = procs[p].dropped]
            ELSE [now EXCEPT !.stage = "remove"]
     ELSE NoMark

\* a call begins: one call less to go
Charge(p, op, sid, iid) ==
  [budget EXCEPT !.calls = @ - 1, !.mark = Mark(p, op, sid, iid)]

(***************************************************************************)
(* History helpers of sprintService: the error of the ledger insert is     *)
(* discarded, so the insert either lands or is lost.                       *)
(***************************************************************************)
recordSprintHistory(p, pr, row) ==
  \/ /\ sprintHistory' = Append(sprintHistory, row)
     /\ procs' = [procs EXCEPT ![p] = pr]
     /\ UNCHANGED budget
  \/ /\ budget.faults > 0
     /\ budget' = [budget EXCEPT !.faults = @ - 1]
     /\ procs' = [procs EXCEPT ![p] = [pr EXCEPT !.dropped = @ + 1]]
     /\ UNCHANGED sprintHistory

recordItemHistoryForgotten(p, pr, row) ==
  /\ procs' = [procs EXCEPT ![p] = pr]
  /\ UNCHANGED <<itemHistory, budget>>

recordItemHistory(p, pr, row) ==
  \/ /\ itemHistory' = Append(itemHistory, row)
     /\ procs' = [procs EXCEPT ![p] = pr]
     /\ UNCHANGED budget
  \/ /\ budget.faults > 0
     /\ budget' = [budget EXCEPT !.faults = @ - 1]
     /\ procs' = [procs EXCEPT ![p] = [pr EXCEPT !.dropped = @ + 1]]
     /\ UNCHANGED itemHistory

(***************************************************************************)
(* The guards of the lifecycle operations and the date-range validation.   *)
(***************************************************************************)
StartAllowed(sprint) == sprint.status = SprintStatusPlanning

CompleteAllowed(sprint) == sprint.status = SprintStatusActive

CancelAllowedAnyOpen(sprint) == sprint.status # SprintStatusCancelled

CancelAllowed(sprint) ==
  sprint.status = SprintStatusActive \/ sprint.status = SprintStatusPlanning

ValidDateRangeNotBefore(startDate, endDate) == endDate >= startDate

\* EndDate.After(StartDate)
ValidDateRange(startDate, endDate) == endDate > startDate

\* the membership tests of AddItem and RemoveItem on the item just read
AlreadyInSprintAnySprint(item, sprintID) == item.sprint # Nil

AlreadyInSprint(item, sprintID) == item.sprint # Nil /\ item.sprint = sprintID

NotInSprint(item, sprintID) == item.sprint = Nil \/ item.sprint # sprintID

(***************************************************************************)
(* sprintService.Start                                                     *)
(***************************************************************************)
StartCall(p, id) ==
  /\ Idle(p) /\ CanCall
  /\ budget' = Charge(p, "Start", id, Nil)
  /\ LET sprint == SprintGetByID(id)
         pr == [Begin(p, "Start", id, Nil) EXCEPT !.sprint = sprint]
     IN procs' = [procs EXCEPT ![p] =
          IF ~sprint.exists THEN Return(pr, ErrSprintNotFound)
          ELSE IF ~StartAllowed(sprint)
            THEN Return(pr, ErrSprintNotPlanning)
          ELSE [pr EXCEPT !.pc = "getActive"]]
  /\ UNCHANGED <<projects, sprints, items, sprintHistory, itemHistory>>

StartGetActive(p) ==
  /\ procs[p].op = "Start" /\ procs[p].pc = "getActive"
  /\ procs' = [procs EXCEPT ![p] =
       IF GetActive(procs[p].sprint.project) # {}
         THEN Return(procs[p], ErrSprintAlreadyActive)
       ELSE [procs[p] EXCEPT !.pc = "updateStatus"]]
  /\ UNCHANGED <<projects, sprints, items, sprintHistory, itemHistory, budget>>

StartUpdateStatus(p) ==
  /\ procs[p].op = "Start" /\ procs[p].pc = "updateStatus"
  /\ sprints' = SprintUpdateStatus(procs[p].sid, SprintStatusActive)
  /\ procs' = [procs EXCEPT ![p].pc = "history"]
  /\ UNCHANGED <<projects, items, sprintHistory, itemHistory, budget>>

StartRecordHistory(p) ==
  /\ procs[p].op = "Start" /\ procs[p].pc = "history"
  /\ recordSprintHistory(p, Return(procs[p], Ok),
       SprintHistoryRow(procs[p].sid, Nil, SprintActionStarted,
                        procs[p].sprint.status, SprintStatusActive))
  /\ UNCHANGED <<projects, sprints, items, itemHistory>>

(***************************************************************************)
(* sprintService.Complete                                                  *)
(***************************************************************************)
CompleteCall(p, id) ==
  /\ Idle(p) /\ CanCall
  /\ budget' = Charge(p, "Complete", id, Nil)
  /\ LET sprint == SprintGetByID(id)
         pr == [Begin(p, "Complete", id, Nil) EXCEPT !.sprint = sprint]
     IN procs' = [procs EXCEPT ![p] =
          IF ~sprint.exists THEN Return(pr, ErrSprintNotFound)
          ELSE IF ~CompleteAllowed(sprint)
            THEN Return(pr, ErrSprintNotActive)
          ELSE [pr EXCEPT !.pc = "velocity"]]
  /\ UNCHANGED <<projects, sprints, items, sprintHistory, itemHistory>>

CompleteCalculateVelocity(p) ==
  /\ procs[p].op = "Complete" /\ procs[p].pc = "velocity"
  /\ procs' = [procs EXCEPT ![p] =
       [procs[p] EXCEPT !.velocity = CalculateVelocity(procs[p].sid),
                        !.pc = "update"]]
  /\ UNCHANGED <<projects, sprints, items, sprintHistory, itemHistory, budget>>

CompleteUpdate(p) ==
  /\ procs[p].op = "Complete" /\ procs[p].pc = "update"
  /\ sprints' \in SprintSave(procs[p].sid,
       [procs[p].sprint EXCEPT !.status = SprintStatusCompleted,
                               !.velocity = procs[p].velocity])
  /\ procs' = [procs EXCEPT ![p].pc = "history"]
  /\ UNCHANGED <<projects, items, sprintHistory, itemHistory, budget>>

CompleteRecordHistory(p) ==
  /\ procs[p].op = "Complete" /\ procs[p].pc = "history"
  /\ recordSprintHistory(p, Return(procs[p], Ok),
       SprintHistoryRow(procs[p].sid, Nil, SprintActionCompleted,
                        SprintStatusActive,
                        [status |-> SprintStatusCompleted,
                         velocity |-> procs[p].velocity]))
  /\ UNCHANGED <<projects, sprints, items, itemHistory>>

(***************************************************************************)
(* sprintService.Cancel                                                    *)
(***************************************************************************)
CancelCall(p, id) ==
  /\ Idle(p) /\ CanCall
  /\ budget' = Charge(p, "Cancel", id, Nil)
  /\ LET sprint == SprintGetByID(id)
         pr == [Begin(p, "Cancel", id, Nil) EXCEPT !.sprint = sprint]
     IN procs' = [procs EXCEPT ![p] =
          IF ~sprint.exists THEN Return(pr, ErrSprintNotFound)
          ELSE IF ~CancelAllowed(sprint)
            THEN Return(pr, ErrSprintNotActive)
          ELSE [pr EXCEPT !.pc = "updateStatus"]]
  /\ UNCHANGED <<projects, sprints, items, sprintHistory, itemHistory>>

CancelUpdateStatus(p) ==
  /\ procs[p].op = "Cancel" /\ procs[p].pc = "updateStatus"
  /\ sprints' = SprintUpdateStatus(procs[p].sid, SprintStatusCancelled)
  /\ procs' = [procs EXCEPT ![p].pc = "history"]
  /\ UNCHANGED <<projects, items, sprintHistory, itemHistory, budget>>

CancelRecordHistory(p) ==
  /\ procs[p].op = "Cancel" /\ procs[p].pc = "history"
  /\ recordSprintHistory(p, Return(procs[p], Ok),
       SprintHistoryRow(procs[p].sid, Nil, SprintActionCancelled,
                        procs[p].sprint.status, SprintStatusCancelled))
  /\ UNCHANGED <<projects, sprints, items, itemHistory>>

(***************************************************************************)
(* sprintService.Create                                                    *)
(***************************************************************************)
CreateCall(p, projectID, startDate, endDate) ==
  /\ Idle(p) /\ CanCall
  /\ budget' = Charge(p, "Create", Nil, Nil)
  /\ LET pr == Begin(p, "Create", Nil, Nil)
     IN IF ~ValidDateRange(startDate, endDate)
          THEN /\ procs' = [procs EXCEPT ![p] = Return(pr, ErrInvalidDateRange)]
               /\ UNCHANGED sprints
          ELSE \* sprintRepo.Create: INSERT, the id set by BeforeCreate
               /\ \E s \in SprintIds : ~sprints[s].exists
               /\ sprints' = [sprints EXCEPT ![NewSprintId] =
                    [exists |-> TRUE, deleted |-> FALSE, project |-> projectID,
                     start |-> startDate, end |-> endDate,
                     status |-> SprintStatusPlanning, velocity |-> NoValue,
                     name |-> <<"s">>, goal |-> << >>]]
               /\ procs' = [procs EXCEPT ![p] =
                    [pr EXCEPT !.sid = NewSprintId, !.pc = "history"]]
  /\ UNCHANGED <<projects, items, sprintHistory, itemHistory>>

CreateRecordHistory(p) ==
  /\ procs[p].op = "Create" /\ procs[p].pc = "history"
  /\ recordSprintHistory(p, Return(procs[p], Ok),
       SprintHistoryRow(procs[p].sid, Nil, SprintActionCreated, Null, Null))
  /\ UNCHANGED <<projects, sprints, items, itemHistory>>

(***************************************************************************)
(* sprintService.Update (start and end date; a zero date means "absent")   *)
(***************************************************************************)
\* the struct after the request's dates are applied to it
ApplyDates(sprint, startDate, endDate) ==
  [sprint EXCEPT
     !.start = IF startDate # 0 /\ startDate # sprint.start THEN startDate ELSE @,
     !.end = IF endDate # 0 /\ endDate # sprint.end THEN endDate ELSE @]

\* the changes map: field -> [old, new]
DateChanges(sprint, startDate, endDate) ==
  (IF startDate # 0 /\ startDate # sprint.start
     THEN {<<"start_date", sprint.start, startDate>>} ELSE {})
  \cup
  (IF endDate # 0 /\ endDate # sprint.end
     THEN {<<"end_date", sprint.end, endDate>>} ELSE {})

\* the name and the goal after the request is applied: compared as sent,
\* stored trimmed; a name or goal is the sequence of its characters, the
\* empty one for a field the request does not carry and for no goal
ApplyNames(sprint, name, goal) ==
  [sprint EXCEPT
     !.name = IF name # << >> /\ name # sprint.name THEN TrimSpace(name) ELSE @,
     !.goal = IF goal # << >> /\ goal # sprint.goal THEN TrimSpace(goal) ELSE @]

NameChanges(sprint, name, goal) ==
  (IF name # << >> /\ name # sprint.name
     THEN {<<"name", sprint.name, name>>} ELSE {})
  \cup
  (IF goal # << >> /\ goal # sprint.goal
     THEN {<<"goal", sprint.goal, goal>>} ELSE {})

SprintUpdateCall(p, id, name, goal, startDate, endDate) ==
  /\ Idle(p) /\ CanCall
  /\ budget' = Charge(p, "Update", id, Nil)
  /\ LET sprint == SprintGetByID(id)
         pr == Begin(p, "Update", id, Nil)
         changed == ApplyDates(ApplyNames(sprint, name, goal), startDate, endDate)
     IN procs' = [procs EXCEPT ![p] =
          IF ~sprint.exists THEN Return(pr, ErrSprintNotFound)
          ELSE IF ~ValidDateRange(changed.start, changed.end)
            THEN Return(pr, ErrInvalidDateRange)
          ELSE [pr EXCEPT !.sprint = changed,
                          !.changes = NameChanges(sprint, name, goal)
                                        \cup DateChanges(sprint, startDate, endDate),
                          !.pc = "update"]]
  /\ UNCHANGED <<projects, sprints, items, sprintHistory, itemHistory>>

\* a request that carries dates only
UpdateCall(p, id, startDate, endDate) ==
  SprintUpdateCall(p, id, << >>, << >>, startDate, endDate)

UpdateSave(p) ==
  /\ procs[p].op = "Update" /\ procs[p].pc = "update"
  /\ sprints' \in SprintSave(procs[p].sid, procs[p].sprint)
  /\ procs' = [procs EXCEPT ![p] =
       IF procs[p].changes # {} THEN [procs[p] EXCEPT !.pc = "history"]
       ELSE Return(procs[p], Ok)]
  /\ UNCHANGED <<projects, items, sprintHistory, itemHistory, budget>>

UpdateRecordHistory(p) ==
  /\ procs[p].op = "Update" /\ procs[p].pc = "history"
  /\ recordSprintHistory(p, Return(procs[p], Ok),
       SprintHistoryRow(procs[p].sid, Nil, SprintActionCreated, Null,
                        procs[p].changes))
  /\ UNCHANGED <<projects, sprints, items, itemHistory>>

(***************************************************************************)
(* sprintService.Delete (soft delete: the row stays, hidden from queries)  *)
(***************************************************************************)
DeleteCall(p, id) ==
  /\ Idle(p) /\ CanCall
  /\ budget' = Charge(p, "Delete", id, Nil)
  /\ LET sprint == SprintGetByID(id)
         pr == Begin(p, "Delete", id, Nil)
     IN procs' = [procs EXCEPT ![p] =
          IF ~sprint.exists THEN Return(pr, ErrSprintNotFound)
          ELSE [pr EXCEPT !.pc = "delete"]]
  /\ UNCHANGED <<projects, sprints, items, sprintHistory, itemHistory>>

DeleteRow(p) ==
  /\ procs[p].op = "Delete" /\ procs[p].pc = "delete"
  /\ sprints' = [sprints EXCEPT ![procs[p].sid].deleted =
                   IF sprints[procs[p].sid].exists THEN TRUE ELSE @]
  /\ procs' = [procs EXCEPT ![p] = Return(procs[p], Ok)]
  /\ UNCHANGED <<projects, items, sprintHistory, itemHistory, budget>>

(***************************************************************************)
(* sprintService.AddItem                                                   *)
(***************************************************************************)
AddItemCall(p, sprintID, itemID) ==
  /\ Idle(p) /\ CanCall
  /\ budget' = Charge(p, "AddItem", sprintID, itemID)
  /\ LET sprint == SprintGetByID(sprintID)
         pr == Begin(p, "AddItem", sprintID, itemID)
     IN procs' = [procs EXCEPT ![p] =
          IF ~sprint.exists THEN Return(pr, ErrSprintNotFound)
          ELSE [pr EXCEPT !.sprint = sprint, !.pc = "getItem"]]
  /\ UNCHANGED <<projects, sprints, items, sprintHistory, itemHistory>>

AddItemGetItem(p) ==
  /\ procs[p].op = "AddItem" /\ procs[p].pc = "getItem"
  /\ LET item == BacklogGetByID(procs[p].iid)
     IN procs' = [procs EXCEPT ![p] =
          IF ~item.exists THEN Return(procs[p], ErrBacklogItemNotFound)
          ELSE IF AlreadyInSprint(item, procs[p].sid)
            THEN Return(procs[p], ErrItemAlreadyInSprint)
          ELSE [procs[p] EXCEPT !.old = item.sprint,
                                !.item = [item EXCEPT !.sprint = procs[p].sid],
                                !.pc = "update"]]
  /\ UNCHANGED <<projects, sprints, items, sprintHistory, itemHistory, budget>>

AddItemUpdate(p) ==
  /\ procs[p].op = "AddItem" /\ procs[p].pc = "update"
  /\ items' \in BacklogSave(procs[p].iid, procs[p].item)
  /\ procs' = [procs EXCEPT ![p].pc = "sprintHistory"]
  /\ UNCHANGED <<projects, sprints, sprintHistory, itemHistory, budget>>

AddItemRecordSprintHistory(p) ==
  /\ procs[p].op = "AddItem" /\ procs[p].pc = "sprintHistory"
  /\ recordSprintHistory(p, [procs[p] EXCEPT !.pc = "itemHistory"],
       SprintHistoryRow(procs[p].sid, procs[p].iid, SprintActionItemAdded,
                        Null, procs[p].iid))
  /\ UNCHANGED <<projects, sprints, items, itemHistory>>

AddItemRecordItemHistory(p) ==
  /\ procs[p].op = "AddItem" /\ procs[p].pc = "itemHistory"
  /\ recordItemHistory(p, Return(procs[p], Ok),
       ItemHistoryRow(procs[p].iid, ItemActionSprintAssigned, "sprint_id",
                      procs[p].old, procs[p].sid))
  /\ UNCHANGED <<projects, sprints, items, sprintHistory>>

(***************************************************************************)
(* sprintService.RemoveItem                                                *)
(***************************************************************************)
RemoveItemCall(p, sprintID, itemID) ==
  /\ Idle(p) /\ CanCall
  /\ budget' = Charge(p, "RemoveItem", sprintID, itemID)
  /\ LET sprint == SprintGetByID(sprintID)
         pr == Begin(p, "RemoveItem", sprintID, itemID)
     IN procs' = [procs EXCEPT ![p] =
          IF ~sprint.exists THEN Return(pr, ErrSprintNotFound)
          ELSE [pr EXCEPT !.sprint = sprint, !.pc = "getItem"]]
  /\ UNCHANGED <<projects, sprints, items, sprintHistory, itemHistory>>

RemoveItemGetItem(p) ==
  /\ procs[p].op = "RemoveItem" /\ procs[p].pc = "getItem"
  /\ LET item == BacklogGetByID(procs[p].iid)
     IN procs' = [procs EXCEPT ![p] =
          IF ~item.exists THEN Return(procs[p], ErrBacklogItemNotFound)
          ELSE IF NotInSprint(item, procs[p].sid)
            THEN Return(procs[p], ErrItemNotInSprint)
          ELSE [procs[p] EXCEPT !.old = item.sprint,
                                !.item = [item EXCEPT !.sprint = Nil],
                                !.pc = "update"]]
  /\ UNCHANGED <<projects, sprints, items, sprintHistory, itemHistory, budget>>

RemoveItemUpdate(p) ==
  /\ procs[p].op = "RemoveItem" /\ procs[p].pc = "update"
  /\ items' \in BacklogSave(procs[p].iid, procs[p].item)
  /\ procs' = [procs EXCEPT ![p].pc = "sprintHistory"]
  /\ UNCHANGED <<projects, sprints, sprintHistory, itemHistory, budget>>

RemoveItemRecordSprintHistory(p) ==
  /\ procs[p].op = "RemoveItem" /\ procs[p].pc = "sprintHistory"
  /\ recordSprintHistory(p, [procs[p] EXCEPT !.pc = "itemHistory"],
       SprintHistoryRow(procs[p].sid, procs[p].iid, SprintActionItemRemoved,
                        procs[p].iid, Null))
  /\ UNCHANGED <<projects, sprints, items, itemHistory>>

RemoveItemRecordItemHistory(p) ==
  /\ procs[p].op = "RemoveItem" /\ procs[p].pc = "itemHistory"
  /\ recordItemHistory(p, Return(procs[p], Ok),
       ItemHistoryRow(procs[p].iid, ItemActionSprintRemoved, "sprint_id",
                      procs[p].old, Nil))
  /\ UNCHANGED <<projects, sprints, items, sprintHistory>>

(***************************************************************************)
(* sprintService.GetReport                                                 *)
(***************************************************************************)
GetReportCall(p, id) ==
  /\ Idle(p) /\ CanCall
  /\ budget' = Charge(p, "GetReport", id, Nil)
  /\ LET sprint == SprintGetByID(id)
         pr == Begin(p, "GetReport", id, Nil)
     IN procs' = [procs EXCEPT ![p] =
          IF ~sprint.exists THEN Return(pr, ErrSprintNotFound)
          ELSE [pr EXCEPT !.sprint = sprint, !.pc = "items"]]
  /\ UNCHANGED <<projects, sprints, items, sprintHistory, itemHistory>>

ReportLiveVelocity(sprint, sprintID) ==
  LET its == GetItemsBySprintID(sprintID)
      done == {i \in its : items[i].status = ItemStatusDone}
  IN [totalItems |-> Cardinality(its),
      completedItems |-> Cardinality(done),
      totalStoryPoints |-> SumPoints(its),
      completedStoryPoints |-> SumPoints(done),
      completionPercentage |->
        IF Cardinality(its) > 0
          THEN (Cardinality(done) * 100) \div Cardinality(its) ELSE 0,
      velocity |-> SumPoints(done)]

\* the statistics computed by the loop over the sprint's items
Report(sprint, sprintID) ==
  LET its == GetItemsBySprintID(sprintID)
      done == {i \in its : items[i].status = ItemStatusDone}
      completedStoryPoints == SumPoints(done)
  IN [totalItems |-> Cardinality(its),
      completedItems |-> Cardinality(done),
      totalStoryPoints |-> SumPoints(its),
      completedStoryPoints |-> completedStoryPoints,
      completionPercentage |->
        IF Cardinality(its) > 0
          THEN (Cardinality(done) * 100) \div Cardinality(its) ELSE 0,
      velocity |-> IF sprint.velocity # NoValue THEN sprint.velocity
                   ELSE completedStoryPoints]

GetReportItems(p) ==
  /\ procs[p].op = "GetReport" /\ procs[p].pc = "items"
  /\ procs' = [procs EXCEPT ![p] =
       [Return(procs[p], Ok) EXCEPT
          !.report = Report(procs[p].sprint, procs[p].sid)]]
  /\ UNCHANGED <<projects, sprints, items, sprintHistory, itemHistory, budget>>

(***************************************************************************)
(* backlogService.UpdateStatus                                             *)
(***************************************************************************)
ItemStatusIsValid(status) == status \in ItemStatuses

ItemTypeIsValid(type) == type \in ItemTypes

PriorityIsValidAny(priority) == TRUE

PriorityIsValid(priority) == priority \in Priorities

BacklogUpdateStatusCall(p, id, status) ==
  /\ Idle(p) /\ CanCall
  /\ budget' = Charge(p, "UpdateStatus", Nil, id)
  /\ LET item == BacklogGetByID(id)
         pr == [Begin(p, "UpdateStatus", Nil, id) EXCEPT !.req.status = status]
     IN procs' = [procs EXCEPT ![p] =
          IF ~ItemStatusIsValid(status) THEN Return(pr, ErrInvalidStatus)
          ELSE IF ~item.exists THEN Return(pr, ErrBacklogItemNotFound)
          ELSE [pr EXCEPT !.item = item, !.pc = "updateStatus"]]
  /\ UNCHANGED <<projects, sprints, items, sprintHistory, itemHistory>>

BacklogUpdateStatusWrite(p) ==
  /\ procs[p].op = "UpdateStatus" /\ procs[p].pc = "updateStatus"
  /\ items' = BacklogUpdateStatus(procs[p].iid, procs[p].req.status)
  /\ procs' = [procs EXCEPT ![p].pc = "history"]
  /\ UNCHANGED <<projects, sprints, sprintHistory, itemHistory, budget>>

BacklogUpdateStatusRecordHistory(p) ==
  /\ procs[p].op = "UpdateStatus" /\ procs[p].pc = "history"
  /\ recordItemHistory(p, Return(procs[p], Ok),
       ItemHistoryRow(procs[p].iid, ItemActionStatusChanged, "status",
                      procs[p].item.status, procs[p].req.status))
  /\ UNCHANGED <<projects, sprints, items, sprintHistory>>

(***************************************************************************)
(* backlogService.Update, for requests that carry type, priority, status,  *)
(* story points, labels and sprint reference (title and description absent *)
(* from the request, so their branches are not taken)                      *)
(***************************************************************************)
ItemActionUpdated == "Updated"

\* the changes map of the field-by-field diff: field -> [old, new]
ItemChanges(item, req) ==
  (IF req.type # Absent /\ req.type # item.type
     THEN {<<"type", item.type, req.type>>} ELSE {})
  \cup
  (IF req.priority # Absent /\ req.priority # item.priority
     THEN {<<"priority", item.priority, req.priority>>} ELSE {})
  \cup
  (IF req.status # Absent /\ req.status # item.status
     THEN {<<"status", item.status, req.status>>} ELSE {})
  \cup
  {<<"labels", item.labels, ls>> : ls \in req.labels}
  \cup
  (IF req.points # NoValue
     THEN {<<"story_points", item.points, req.points>>} ELSE {})
  \cup
  (IF req.sprint # NoValue
     THEN {<<"sprint_id", item.sprint, req.sprint>>} ELSE {})

\* the struct after the request is applied to it
ApplyItemRequest(item, req) ==
  [item EXCEPT
     !.type = IF req.type # Absent /\ req.type # item.type THEN req.type ELSE @,
     !.priority = IF req.priority # Absent /\ req.priority # item.priority
                    THEN req.priority ELSE @,
     !.status = IF req.status # Absent /\ req.status # item.status
                  THEN req.status ELSE @,
     !.labels = IF req.labels # {} THEN CHOOSE ls \in req.labels : TRUE ELSE @,
     !.labelsNull = IF req.labels # {} THEN FALSE ELSE @,
     !.points = IF req.points # NoValue THEN req.points ELSE @,
     !.sprint = IF req.sprint # NoValue THEN req.sprint ELSE @]

BacklogUpdateCall(p, id, req) ==
  /\ Idle(p) /\ CanCall
  /\ budget' = Charge(p, "UpdateItem", Nil, id)
  /\ LET item == BacklogGetByID(id)
         pr == Begin(p, "UpdateItem", Nil, id)
     IN procs' = [procs EXCEPT ![p] =
          IF ~item.exists THEN Return(pr, ErrBacklogItemNotFound)
          ELSE IF req.type # Absent /\ req.type # item.type
                  /\ ~ItemTypeIsValid(req.type)
            THEN Return(pr, ErrInvalidItemType)
          ELSE IF req.priority # Absent /\ req.priority # item.priority
                  /\ ~PriorityIsValid(req.priority)
            THEN Return(pr, ErrInvalidPriority)
          ELSE IF req.status # Absent /\ req.status # item.status
                  /\ ~ItemStatusIsValid(req.status)
            THEN Return(pr, ErrInvalidStatus)
          ELSE [pr EXCEPT !.item = ApplyItemRequest(item, req),
                          !.changes = ItemChanges(item, req),
                          !.pc = "update"]]
  /\ UNCHANGED <<projects, sprints, items, sprintHistory, itemHistory>>

BacklogUpdateSave(p) ==
  /\ procs[p].op = "UpdateItem" /\ procs[p].pc = "update"
  /\ items' \in BacklogSave(procs[p].iid, procs[p].item)
  /\ procs' = [procs EXCEPT ![p] =
       IF procs[p].changes # {} THEN [procs[p] EXCEPT !.pc = "history"]
       ELSE Return(procs[p], Ok)]
  /\ UNCHANGED <<projects, sprints, sprintHistory, itemHistory, budget>>

\* the loop over the changes map: one ledger insert per changed field, in
\* the map's iteration order, which the language leaves unspecified
BacklogUpdateRecordHistory(p) ==
  /\ procs[p].op = "UpdateItem" /\ procs[p].pc = "history"
  /\ \E c \in procs[p].changes :
       LET rest == procs[p].changes \ {c}
       IN recordItemHistory(p,
            IF rest = {} THEN Return(procs[p], Ok)
            ELSE [procs[p] EXCEPT !.changes = rest],
            ItemHistoryRow(procs[p].iid, ItemActionUpdated, c[1], c[2], c[3]))
  /\ UNCHANGED <<projects, sprints, items, sprintHistory>>

(***************************************************************************)
(* backlogService.Create                                                   *)
(***************************************************************************)
\* the status a created item gets: New when the request names none
CreateStatus(req) == IF req.status = Absent THEN ItemStatusNew ELSE req.status

\* the struct Create builds from the request and the position read
NewItem(req, maxPos) ==
  [NoItem EXCEPT
     !.exists = TRUE,
     !.project = req.project,
     !.sprint = IF req.sprint = NoValue THEN Nil ELSE req.sprint,
     !.type = req.type,
     !.priority = req.priority,
     !.status = CreateStatus(req),
     !.points = req.points,
     !.labels = IF req.labels = {} THEN << >> ELSE CHOOSE ls \in req.labels : TRUE,
     !.labelsNull = (req.labels = {}),
     !.position = maxPos + 1]

\* the Create calls that have not yet inserted their row
Creating == {q \in Procs : procs[q].op = "CreateItem" /\ procs[q].pc = "create"}

BacklogCreateCall(p, req) ==
  /\ Idle(p) /\ CanCall
  /\ Cardinality(FreeItemIds) > Cardinality(Creating)
  /\ budget' = Charge(p, "CreateItem", Nil, Nil)
  /\ LET pr == Begin(p, "CreateItem", Nil, Nil)
     IN procs' = [procs EXCEPT ![p] =
          IF ~ItemTypeIsValid(req.type) THEN Return(pr, ErrInvalidItemType)
          ELSE IF ~PriorityIsValid(req.priority) THEN Return(pr, ErrInvalidPriority)
          ELSE IF ~ItemStatusIsValid(CreateStatus(req))
            THEN Return(pr, ErrInvalidStatus)
          ELSE [pr EXCEPT !.item = NewItem(req, GetMaxPosition(req.project)),
                          !.pc = "create"]]
  /\ UNCHANGED <<projects, sprints, items, sprintHistory, itemHistory>>

BacklogCreateInsert(p) ==
  /\ procs[p].op = "CreateItem" /\ procs[p].pc = "create"
  /\ items' = [items EXCEPT ![NewItemId] = procs[p].item]
  /\ procs' = [procs EXCEPT ![p] =
       [procs[p] EXCEPT !.iid = NewItemId, !.pc = "history"]]
  /\ UNCHANGED <<projects, sprints, sprintHistory, itemHistory, budget>>

BacklogCreateRecordHistory(p) ==
  /\ procs[p].op = "CreateItem" /\ procs[p].pc = "history"
  /\ recordItemHistory(p, Return(procs[p], Ok),
       ItemHistoryRow(procs[p].iid, ItemActionCreated, Null, Null, Null))
  /\ UNCHANGED <<projects, sprints, items, sprintHistory>>

(***************************************************************************)
(* backlogService.Delete                                                   *)
(***************************************************************************)
BacklogDeleteCall(p, id) ==
  /\ Idle(p) /\ CanCall
  /\ budget' = Charge(p, "DeleteItem", Nil, id)
  /\ LET item == BacklogGetByID(id)
         pr == Begin(p, "DeleteItem", Nil, id)
     IN procs' = [procs EXCEPT ![p] =
          IF ~item.exists THEN Return(pr, ErrBacklogItemNotFound)
          ELSE [pr EXCEPT !.pc = "delete"]]
  /\ UNCHANGED <<projects, sprints, items, sprintHistory, itemHistory>>

BacklogDeleteRow(p) ==
  /\ procs[p].op = "DeleteItem" /\ procs[p].pc = "delete"
  /\ items' = BacklogDelete(procs[p].iid)
  /\ procs' = [procs EXCEPT ![p] = Return(procs[p], Ok)]
  /\ UNCHANGED <<projects, sprints, sprintHistory, itemHistory, budget>>

(***************************************************************************)
(* backlogService.UpdatePriority                                           *)
(***************************************************************************)
BacklogUpdatePriorityCall(p, id, priority) ==
  /\ Idle(p) /\ CanCall
  /\ budget' = Charge(p, "UpdatePriority", Nil, id)
  /\ LET item == BacklogGetByID(id)
         pr == [Begin(p, "UpdatePriority", Nil, id) EXCEPT !.req.priority = priority]
     IN procs' = [procs EXCEPT ![p] =
          IF ~PriorityIsValid(priority) THEN Return(pr, ErrInvalidPriority)
          ELSE IF ~item.exists THEN Return(pr, ErrBacklogItemNotFound)
          ELSE [pr EXCEPT !.item = item, !.pc = "updatePriority"]]
  /\ UNCHANGED <<projects, sprints, items, sprintHistory, itemHistory>>

BacklogUpdatePriorityWrite(p) ==
  /\ procs[p].op = "UpdatePriority" /\ procs[p].pc = "updatePriority"
  /\ items' = BacklogUpdatePriority(procs[p].iid, procs[p].req.priority)
  /\ procs' = [procs EXCEPT ![p].pc = "history"]
  /\ UNCHANGED <<projects, sprints, sprintHistory, itemHistory, budget>>

BacklogUpdatePriorityRecordHistory(p) ==
  /\ procs[p].op = "UpdatePriority" /\ procs[p].pc = "history"
  /\ recordItemHistory(p, Return(procs[p], Ok),
       ItemHistoryRow(procs[p].iid, ItemActionPriorityChanged, "priority",
                      procs[p].item.priority, procs[p].req.priority))
  /\ UNCHANGED <<projects, sprints, items, sprintHistory>>

(***************************************************************************)
(* backlogService.AddLabel and RemoveLabel.  A label is the sequence of    *)
(* its characters.                                                         *)
(***************************************************************************)
\* UPDATE backlog_items SET labels = array_append(labels, ?)
\*   WHERE id = ? AND NOT (? = ANY(labels)), a statement with no soft-delete
\* filter; over a NULL column the condition is NULL and the row is not updated
BacklogAddLabel(id, label) ==
  IF /\ items[id].exists /\ ~items[id].labelsNull
     /\ \A k \in DOMAIN items[id].labels : items[id].labels[k] # label
    THEN [items EXCEPT ![id].labels = Append(@, label)]
  ELSE items

\* UPDATE backlog_items SET labels = array_remove(labels, ?) WHERE id = ?
BacklogRemoveLabel(id, label) ==
  IF items[id].exists
    THEN [items EXCEPT ![id].labels = SelectSeq(@, LAMBDA l : l # label)]
  ELSE items

AddLabelCall(p, id, label) ==
  /\ Idle(p) /\ CanCall
  /\ budget' = Charge(p, "AddLabel", Nil, id)
  /\ LET trimmed == TrimSpace(label)
         item == BacklogGetByID(id)
         pr == [Begin(p, "AddLabel", Nil, id) EXCEPT !.req.label = trimmed]
     IN procs' = [procs EXCEPT ![p] =
          IF trimmed = << >> THEN Return(pr, ErrEmptyLabel)
          ELSE IF ~item.exists THEN Return(pr, ErrBacklogItemNotFound)
          ELSE [pr EXCEPT !.item = item, !.pc = "addLabel"]]
  /\ UNCHANGED <<projects, sprints, items, sprintHistory, itemHistory>>

AddLabelWrite(p) ==
  /\ procs[p].op = "AddLabel" /\ procs[p].pc = "addLabel"
  /\ items' = BacklogAddLabel(procs[p].iid, procs[p].req.label)
  /\ procs' = [procs EXCEPT ![p].pc = "history"]
  /\ UNCHANGED <<projects, sprints, sprintHistory, itemHistory, budget>>

AddLabelRecordHistory(p) ==
  /\ procs[p].op = "AddLabel" /\ procs[p].pc = "history"
  /\ recordItemHistory(p, Return(procs[p], Ok),
       ItemHistoryRow(procs[p].iid, ItemActionLabelAdded, Null, Null,
                      procs[p].req.label))
  /\ UNCHANGED <<projects, sprints, items, sprintHistory>>

RemoveLabelCall(p, id, label) ==
  /\ Idle(p) /\ CanCall
  /\ budget' = Charge(p, "RemoveLabel", Nil, id)
  /\ LET item == BacklogGetByID(id)
         pr == [Begin(p, "RemoveLabel", Nil, id) EXCEPT !.req.label = label]
     IN procs' = [procs EXCEPT ![p] =
          IF ~item.exists THEN Return(pr, ErrBacklogItemNotFound)
          ELSE [pr EXCEPT !.item = item, !.pc = "removeLabel"]]
  /\ UNCHANGED <<projects, sprints, items, sprintHistory, itemHistory>>

RemoveLabelWrite(p) ==
  /\ procs[p].op = "RemoveLabel" /\ procs[p].pc = "removeLabel"
  /\ items' = BacklogRemoveLabel(procs[p].iid, procs[p].req.label)
  /\ procs' = [procs EXCEPT ![p].pc = "history"]
  /\ UNCHANGED <<projects, sprints, sprintHistory, itemHistory, budget>>

RemoveLabelRecordHistory(p) ==
  /\ procs[p].op = "RemoveLabel" /\ procs[p].pc = "history"
  /\ recordItemHistory(p, Return(procs[p], Ok),
       ItemHistoryRow(procs[p].iid, ItemActionLabelRemoved, Null,
                      procs[p].req.label, Null))
  /\ UNCHANGED <<projects, sprints, items, sprintHistory>>

(***************************************************************************)
(* userService.GetActivities.  Here the ledger rows carry the two columns  *)
(* the call reads, user_id and timestamp.                                  *)
(***************************************************************************)
Stamped(row, userID, timestamp) == row @@ [user |-> userID, ts |-> timestamp]

\* the orders of the entries of S with the newest first
RECURSIVE NewestFirst(_)
NewestFirst(S) ==
  IF S = {} THEN {<< >>}
  ELSE UNION {{<<x>> \o t : t \in NewestFirst(S \ {x})} :
                x \in {y \in S : \A z \in S : ~(z.ts > y.ts)}}

Range(seq) == {seq[i] : i \in DOMAIN seq}

\* UserActivityResponse of row i of a ledger
Activity(type, ledger, i) == [type |-> type, id |-> i, ts |-> ledger[i].ts]

\* WHERE user_id = ? ORDER BY timestamp DESC, no limit
HistoryGetByUserID(type, ledger, userID) ==
  NewestFirst({Activity(type, ledger, i) :
                 i \in {j \in DOMAIN ledger : ledger[j].user = userID}})

SortByTimestampPerLedger(activities) == {activities}

\* sort.Slice with Timestamp.After as less: entries of equal timestamp come
\* out in an order of the sort's choosing
SortByTimestamp(activities) == NewestFirst(Range(activities))

ApplyLimitAlways(activities, limit) ==
  IF Len(activities) > limit THEN SubSeq(activities, 1, limit) ELSE activities

ApplyLimit(activities, limit) ==
  IF limit > 0 /\ Len(activities) > limit
    THEN SubSeq(activities, 1, limit) ELSE activities

GetActivitiesCall(p, userID, limit) ==
  /\ Idle(p) /\ CanCall
  /\ budget' = Charge(p, "GetActivities", Nil, Nil)
  /\ \E itemHistories \in HistoryGetByUserID("item", itemHistory, userID) :
       procs' = [procs EXCEPT ![p] =
         [Begin(p, "GetActivities", Nil, Nil) EXCEPT
            !.user = userID, !.limit = limit, !.rows = itemHistories,
            !.pc = "sprintHistories"]]
  /\ UNCHANGED <<projects, sprints, items, sprintHistory, itemHistory>>

GetActivitiesMerge(p) ==
  /\ procs[p].op = "GetActivities" /\ procs[p].pc = "sprintHistories"
  /\ \E sprintHistories \in HistoryGetByUserID("sprint", sprintHistory, procs[p].user) :
     \E activities \in SortByTimestamp(procs[p].rows \o sprintHistories) :
       procs' = [procs EXCEPT ![p] =
         [Return(procs[p], Ok) EXCEPT
            !.rows = << >>,
            !.acts = [activities |-> ApplyLimit(activities, procs[p].limit),
                      total |-> Len(activities),
                      limit |-> procs[p].limit]]]
  /\ UNCHANGED <<projects, sprints, items, sprintHistory, itemHistory, budget>>

(***************************************************************************)
(* projectService.Create.  A key is the sequence of its characters; the    *)
(* projects table is kept in the order of its inserts.                     *)
(***************************************************************************)
ProjectRow(key) == [key |-> key, deleted |-> FALSE]

ToUpperNot(key) == key

\* strings.ToUpper
ToUpper(key) ==
  [i \in DOMAIN key |->
     IF key[i] = "a" THEN "A" ELSE IF key[i] = "b" THEN "B"
     ELSE IF key[i] = "c" THEN "C" ELSE key[i]]

\* GetByKey: the rows with the key that are not marked deleted
ProjectGetByKey(key) ==
  {i \in DOMAIN projects : projects[i].key = key /\ ~projects[i].deleted}

\* the unique index on projects.key holds every row, marked deleted or not
KeyIndexed(key) == \E i \in DOMAIN projects : projects[i].key = key

ProjectCreateCall(p, requested) ==
  /\ Idle(p) /\ CanCall
  /\ budget' = Charge(p, "CreateProject", Nil, Nil)
  /\ LET key == ToUpper(TrimSpace(requested))
         pr == [Begin(p, "CreateProject", Nil, Nil) EXCEPT !.key = key]
     IN procs' = [procs EXCEPT ![p] =
          IF ProjectGetByKey(key) # {} THEN Return(pr, ErrProjectKeyExists)
          ELSE [pr EXCEPT !.pc = "create"]]
  /\ UNCHANGED <<projects, sprints, items, sprintHistory, itemHistory>>

\* projectRepo.Create: the INSERT, refused by the unique index when a row
\* has the key; the read-back of the new row is folded into the return
ProjectCreateInsert(p) ==
  /\ procs[p].op = "CreateProject" /\ procs[p].pc = "create"
  /\ IF KeyIndexed(procs[p].key)
       THEN /\ procs' = [procs EXCEPT ![p] = Return(procs[p], ErrDuplicatedKey)]
            /\ UNCHANGED projects
       ELSE /\ projects' = Append(projects, ProjectRow(procs[p].key))
            /\ procs' = [procs EXCEPT ![p] = Return(procs[p], Ok)]
  /\ UNCHANGED <<sprints, items, sprintHistory, itemHistory, budget>>

(***************************************************************************)
(* The paginated listings: projectService.GetAllWithPagination,            *)
(* sprintService.GetAll and backlogService.GetAll, each with no filter.    *)
(***************************************************************************)
NormalizePage(page) == IF page < 1 THEN 1 ELSE page

NormalizeLimitUncapped(limit) == IF limit < 1 THEN 10 ELSE limit

NormalizeLimit(limit) ==
  IF limit < 1 THEN 10 ELSE IF limit > 100 THEN 100 ELSE limit

\* Offset((page - 1) * limit).Limit(limit) on the ordered rows
Paginate(rows, page, limit) ==
  LET offset == (page - 1) * limit
      last == IF offset + limit < Len(rows) THEN offset + limit ELSE Len(rows)
  IN IF offset >= Len(rows) THEN << >> ELSE SubSeq(rows, offset + 1, last)

\* totalPages of the To...ListResponse converters
TotalPages(total, limit) ==
  (total \div limit) + (IF total % limit > 0 THEN 1 ELSE 0)

\* the orders of the ids of S with the largest rank first
RECURSIVE Descending(_, _)
Descending(S, rank) ==
  IF S = {} THEN {<< >>}
  ELSE UNION {{<<x>> \o t : t \in Descending(S \ {x}, rank)} :
                x \in {y \in S : \A z \in S : ~(rank[z] > rank[y])}}

\* ORDER BY created_at DESC of the projects not marked deleted
ProjectsListed ==
  Descending({i \in DOMAIN projects : ~projects[i].deleted},
             [i \in DOMAIN projects |-> i])

\* ORDER BY start_date DESC of the sprints not marked deleted
SprintsListed ==
  Descending({i \in SprintIds : Visible(i)}, [i \in SprintIds |-> sprints[i].start])

\* ORDER BY created_at DESC of the items not marked deleted; the items were
\* created in the order of their positions
ItemsListed ==
  Descending({i \in ItemIds : ItemVisible(i)},
             [i \in ItemIds |-> items[i].position])

\* the rows the listing of the call counts and pages
Listed(op) ==
  IF op = "ListProjects" THEN ProjectsListed
  ELSE IF op = "ListSprints" THEN SprintsListed
  ELSE ItemsListed

\* the service sets the defaults; the repository counts the rows
ListCall(p, op, page, limit) ==
  /\ Idle(p) /\ CanCall
  /\ budget' = Charge(p, op, Nil, Nil)
  /\ \E rows \in Listed(op) :
       procs' = [procs EXCEPT ![p] =
         [Begin(p, op, Nil, Nil) EXCEPT
            !.pc = "find", !.page = page, !.limit = limit,
            !.list = [NoList EXCEPT !.page = NormalizePage(page),
                                    !.limit = NormalizeLimit(limit),
                                    !.total = Len(rows)]]]
  /\ UNCHANGED <<projects, sprints, items, sprintHistory, itemHistory>>

ProjectGetAllWithPagination(p, page, limit) == ListCall(p, "ListProjects", page, limit)

SprintGetAll(p, page, limit) == ListCall(p, "ListSprints", page, limit)

BacklogGetAll(p, page, limit) == ListCall(p, "ListItems", page, limit)

\* the repository's second statement reads the page; the converter builds
\* the response
ListFind(p) ==
  /\ procs[p].op \in {"ListProjects", "ListSprints", "ListItems"}
  /\ procs[p].pc = "find"
  /\ \E rows \in Listed(procs[p].op) :
       procs' = [procs EXCEPT ![p] =
         [Return(procs[p], Ok) EXCEPT
            !.list.rows = Paginate(rows, procs[p].list.page, procs[p].list.limit),
            !.list.totalPages = TotalPages(procs[p].list.total, procs[p].list.limit)]]
  /\ UNCHANGED <<projects, sprints, items, sprintHistory, itemHistory, budget>>

(***************************************************************************)
(* The steps of each service operation, for a worker p.                    *)
(***************************************************************************)
StartSteps(p) ==
  \/ \E id \in SprintIds : StartCall(p, id)
  \/ StartGetActive(p)
  \/ StartUpdateStatus(p)
  \/ StartRecordHistory(p)

CompleteSteps(p) ==
  \/ \E id \in SprintIds : CompleteCall(p, id)
  \/ CompleteCalculateVelocity(p)
  \/ CompleteUpdate(p)
  \/ CompleteRecordHistory(p)

CancelSteps(p) ==
  \/ \E id \in SprintIds : CancelCall(p, id)
  \/ CancelUpdateStatus(p)
  \/ CancelRecordHistory(p)

CreateSteps(p) ==
  \/ \E pj \in Projects, sd \in Dates, ed \in Dates : CreateCall(p, pj, sd, ed)
  \/ CreateRecordHistory(p)

UpdateSteps(p) ==
  \/ \E id \in SprintIds, sd \in Dates, ed \in Dates : UpdateCall(p, id, sd, ed)
  \/ UpdateSave(p)
  \/ UpdateRecordHistory(p)

DeleteSteps(p) ==
  \/ \E id \in SprintIds : DeleteCall(p, id)
  \/ DeleteRow(p)

AddItemSteps(p) ==
  \/ \E s \in SprintIds, i \in ItemIds : AddItemCall(p, s, i)
  \/ AddItemGetItem(p)
  \/ AddItemUpdate(p)
  \/ AddItemRecordSprintHistory(p)
  \/ AddItemRecordItemHistory(p)

RemoveItemSteps(p) ==
  \/ \E s \in SprintIds, i \in ItemIds : RemoveItemCall(p, s, i)
  \/ RemoveItemGetItem(p)
  \/ RemoveItemUpdate(p)
  \/ RemoveItemRecordSprintHistory(p)
  \/ RemoveItemRecordItemHistory(p)

GetReportSteps(p) ==
  \/ \E id \in SprintIds : GetReportCall(p, id)
  \/ GetReportItems(p)

\* the status values the requests carry: valid ones and one that is not
ItemStatusInputs == {ItemStatusNew, ItemStatusDone, "Bogus"}

BacklogUpdateStatusSteps(p) ==
  \/ \E i \in ItemIds, st \in ItemStatusInputs : BacklogUpdateStatusCall(p, i, st)
  \/ BacklogUpdateStatusWrite(p)
  \/ BacklogUpdateStatusRecordHistory(p)

\* update requests that carry story points only
PointsRequests == {[NoReq EXCEPT !.points = n] : n \in 0..MaxPoints}

BacklogUpdateSteps(p) ==
  \/ \E i \in ItemIds, req \in PointsRequests : BacklogUpdateCall(p, i, req)
  \/ BacklogUpdateSave(p)
  \/ BacklogUpdateRecordHistory(p)

BacklogCreateSteps(p, requests) ==
  \/ \E req \in requests : BacklogCreateCall(p, req)
  \/ BacklogCreateInsert(p)
  \/ BacklogCreateRecordHistory(p)

\* the priority values the requests carry: a valid one and one that is not
PriorityInputs == {"Low", "Bogus"}

BacklogUpdatePrioritySteps(p) ==
  \/ \E i \in ItemIds, pr \in PriorityInputs : BacklogUpdatePriorityCall(p, i, pr)
  \/ BacklogUpdatePriorityWrite(p)
  \/ BacklogUpdatePriorityRecordHistory(p)

BacklogDeleteSteps(p) ==
  \/ \E i \in ItemIds : BacklogDeleteCall(p, i)
  \/ BacklogDeleteRow(p)

\* the labels the requests carry: plain ones, one with a leading blank and
\* one that is nothing but a blank
LabelInputs == {<<"a">>, <<Space, "a">>, <<"b">>, <<Space>>}

AddLabelSteps(p) ==
  \/ \E i \in ItemIds, l \in LabelInputs : AddLabelCall(p, i, l)
  \/ AddLabelWrite(p)
  \/ AddLabelRecordHistory(p)

RemoveLabelSteps(p) ==
  \/ \E i \in ItemIds, l \in LabelInputs : RemoveLabelCall(p, i, l)
  \/ RemoveLabelWrite(p)
  \/ RemoveLabelRecordHistory(p)

\* update requests that carry a list of labels only
LabelsRequests ==
  {[NoReq EXCEPT !.labels = {ls}] :
     ls \in {<< >>, << <<"a">> >>, << <<Space, "a">> >>}}

GetActivitiesSteps(p) ==
  \/ \E u \in Users, l \in Limits : GetActivitiesCall(p, u, l)
  \/ GetActivitiesMerge(p)

(***************************************************************************)
(* Stores the program can be in when the requests arrive: sprints and      *)
(* items created by earlier calls, with the ledger rows those calls wrote. *)
(***************************************************************************)
\* the projects the seeded sprints and items belong to
SeedProjects == << ProjectRow(<<"A">>), ProjectRow(<<"B">>) >>

SeedSprint(project, status, velocity) ==
  [exists |-> TRUE, deleted |-> FALSE, project |-> project, start |-> 1,
   end |-> 2, status |-> status, velocity |-> velocity,
   name |-> <<"s">>, goal |-> << >>]

SeedItem(sprintID, status, points) ==
  [NoItem EXCEPT !.exists = TRUE, !.sprint = sprintID, !.status = status,
                 !.points = points, !.project = "alpha"]

\* the rows the lifecycle calls wrote that brought sprint s to its status
SeedHistory(s, row) ==
  << SprintHistoryRow(s, Nil, SprintActionCreated, Null, Null) >>
  \o (IF row.status \in {SprintStatusActive, SprintStatusCompleted}
        THEN << SprintHistoryRow(s, Nil, SprintActionStarted,
                                 SprintStatusPlanning, SprintStatusActive) >>
        ELSE << >>)
  \o (IF row.status = SprintStatusCompleted
        THEN << SprintHistoryRow(s, Nil, SprintActionCompleted, SprintStatusActive,
                  [status |-> SprintStatusCompleted, velocity |-> row.velocity]) >>
        ELSE << >>)
  \o (IF row.status = SprintStatusCancelled
        THEN << SprintHistoryRow(s, Nil, SprintActionCancelled,
                                 SprintStatusPlanning, SprintStatusCancelled) >>
        ELSE << >>)

Seeded(first, second, itemRows, callBudget, faultBudget, observe) ==
  /\ sprints = [s \in SprintIds |->
                  IF s = 1 THEN first ELSE IF s = 2 THEN second ELSE NoSprint]
  /\ items = [i \in ItemIds |->
                IF i \in DOMAIN itemRows /\ itemRows[i].exists
                  THEN [itemRows[i] EXCEPT !.position = i]
                ELSE NoItem]
  /\ sprintHistory = SeedHistory(1, first) \o SeedHistory(2, second)
  /\ itemHistory = << >>
  /\ procs = [p \in Procs |-> IdleProc]
  /\ budget = [calls |-> callBudget, faults |-> faultBudget,
               observe |-> observe, mark |-> NoMark]
  /\ projects = SeedProjects

(***************************************************************************)
(* Spec: the sprint service under concurrent requests.  Two Planning       *)
(* sprints of one project, one of them holding a Done and a New item.      *)
(***************************************************************************)
Init ==
  Seeded(SeedSprint("alpha", SprintStatusPlanning, NoValue),
         SeedSprint("alpha", SprintStatusPlanning, NoValue),
         << SeedItem(1, ItemStatusDone, MaxPoints), SeedItem(1, ItemStatusNew, 1) >>,
         MaxCalls, 0, FALSE)

Next ==
  \E p \in Procs :
    \/ StartSteps(p)
    \/ CompleteSteps(p)
    \/ CancelSteps(p)
    \/ CreateSteps(p)
    \/ UpdateSteps(p)
    \/ DeleteSteps(p)

Spec == Init /\ [][Next]_vars

(***************************************************************************)
(* SpecStart: nothing but Start calls, on the same store.                  *)
(***************************************************************************)
NextStart == \E p \in Procs : StartSteps(p)

SpecStart == Init /\ [][NextStart]_vars

(***************************************************************************)
(* SpecGuards: Start, Complete and Cancel calls against a first sprint in  *)
(* any status and a second, Planning sprint of the same or another project *)
(***************************************************************************)
GuardCalls == 2

InitGuards ==
  \E st \in SprintStatuses, pj \in Projects :
    Seeded(SeedSprint("alpha", st, IF st = SprintStatusCompleted THEN MaxPoints ELSE NoValue),
           SeedSprint(pj, SprintStatusPlanning, NoValue),
           << SeedItem(1, ItemStatusDone, MaxPoints), SeedItem(2, ItemStatusNew, 1) >>,
           GuardCalls, 0, FALSE)

NextGuards ==
  \E p \in Procs :
    \/ StartSteps(p)
    \/ CompleteSteps(p)
    \/ CancelSteps(p)

SpecGuards == InitGuards /\ [][NextGuards]_vars

(***************************************************************************)
(* SpecDates: Create and Update calls.                                     *)
(***************************************************************************)
DateCalls == 2

InitDates ==
  Seeded(SeedSprint("alpha", SprintStatusPlanning, NoValue),
         SeedSprint("alpha", SprintStatusActive, NoValue),
         << >>, DateCalls, 0, FALSE)

NextDates ==
  \E p \in Procs :
    \/ \E sd \in Dates, ed \in Dates : CreateCall(p, "alpha", sd, ed)
    \/ CreateRecordHistory(p)
    \/ UpdateSteps(p)

SpecDates == InitDates /\ [][NextDates]_vars

(***************************************************************************)
(* SpecVelocity: Complete and GetReport calls racing with the calls that   *)
(* change items.  The first sprint is Active, the second was completed     *)
(* with its one Done item.                                                 *)
(***************************************************************************)
VelocityCalls == 2

InitVelocity ==
  \E pts \in {NoValue, 1} :
    Seeded(SeedSprint("alpha", SprintStatusActive, NoValue),
           SeedSprint("alpha", SprintStatusCompleted, MaxPoints),
           << SeedItem(1, ItemStatusNew, pts), SeedItem(2, ItemStatusDone, MaxPoints) >>,
           VelocityCalls, 0, FALSE)

NextVelocity ==
  \E p \in Procs :
    \/ CompleteSteps(p)
    \/ GetReportSteps(p)
    \/ BacklogUpdateStatusSteps(p)
    \/ BacklogUpdateSteps(p)
    \/ AddItemSteps(p)
    \/ RemoveItemSteps(p)

SpecVelocity == InitVelocity /\ [][NextVelocity]_vars

(***************************************************************************)
(* SpecItems: one client calling AddItem and RemoveItem one after the      *)
(* other, with ledger inserts that may fail.                               *)
(***************************************************************************)
ItemCalls == 3
MaxFaults == 2

InitItems ==
  \E r1 \in {Nil, 1, 2}, r2 \in {Nil, 1} :
    Seeded(SeedSprint("alpha", SprintStatusPlanning, NoValue),
           SeedSprint("alpha", SprintStatusPlanning, NoValue),
           << SeedItem(r1, ItemStatusNew, 1), SeedItem(r2, ItemStatusDone, NoValue) >>,
           ItemCalls, MaxFaults, TRUE)

NextItems ==
  \/ AddItemSteps("w1")
  \/ RemoveItemSteps("w1")

SpecItems == InitItems /\ [][NextItems]_vars

(***************************************************************************)
(* SpecMembership: concurrent AddItem and RemoveItem calls that name       *)
(* sprints and items that exist and ones that do not (sprint 3 was never   *)
(* created, item 2 was never created or was deleted).                      *)
(***************************************************************************)
MembershipCalls == 2

InitMembership ==
  \E r1 \in {Nil, 1, 2}, gone \in BOOLEAN :
    Seeded(SeedSprint("alpha", SprintStatusPlanning, NoValue),
           SeedSprint("alpha", SprintStatusActive, NoValue),
           << SeedItem(r1, ItemStatusNew, 1),
              IF gone THEN [SeedItem(1, ItemStatusNew, 1) EXCEPT !.deleted = TRUE]
                      ELSE NoItem >>,
           MembershipCalls, 0, FALSE)

NextMembership ==
  \E p \in Procs :
    \/ AddItemSteps(p)
    \/ RemoveItemSteps(p)

SpecMembership == InitMembership /\ [][NextMembership]_vars

(***************************************************************************)
(* SpecLedger: the lifecycle calls on a store whose ledger inserts may     *)
(* fail.                                                                   *)
(***************************************************************************)
LedgerCalls == 3
LedgerFaults == 1

InitLedger ==
  Seeded(SeedSprint("alpha", SprintStatusPlanning, NoValue),
         SeedSprint("beta", SprintStatusActive, NoValue),
         << SeedItem(2, ItemStatusDone, 1), SeedItem(1, ItemStatusNew, 1) >>,
         LedgerCalls, LedgerFaults, FALSE)

NextLedger ==
  \E p \in Procs :
    \/ CreateCall(p, "alpha", 1, 2)
    \/ CreateRecordHistory(p)
    \/ StartSteps(p)
    \/ CompleteSteps(p)
    \/ CancelSteps(p)

SpecLedger == InitLedger /\ [][NextLedger]_vars

(***************************************************************************)
(* SpecActivities: one GetActivities call on ledgers written by two users. *)
(* The rows of a ledger carry the time of their insert, so a later row is  *)
(* not older than an earlier one.                                          *)
(***************************************************************************)
\* the ledgers of up to MaxRows rows each, by their users and timestamps
Stamps ==
  {st \in UNION {[1..n -> Users \X Times] : n \in 0..MaxRows} :
     \A i \in DOMAIN st, j \in DOMAIN st : i < j => st[i][2] <= st[j][2]}

InitActivities ==
  \E si \in Stamps, ss \in Stamps :
    /\ sprints = [s \in SprintIds |->
         IF s = 1 THEN SeedSprint("alpha", SprintStatusPlanning, NoValue)
         ELSE NoSprint]
    /\ items = [i \in ItemIds |->
         IF i = 1 THEN SeedItem(Nil, ItemStatusDone, 1) ELSE NoItem]
    /\ procs = [p \in Procs |-> IdleProc]
    /\ budget = [calls |-> 1, faults |-> 0, observe |-> FALSE,
                 mark |-> NoMark]
    /\ projects = SeedProjects
    /\ itemHistory = [i \in DOMAIN si |->
         Stamped(ItemHistoryRow(1, ItemActionStatusChanged, "status",
                                ItemStatusNew, ItemStatusDone),
                 si[i][1], si[i][2])]
    /\ sprintHistory = [i \in DOMAIN ss |->
         Stamped(SprintHistoryRow(1, Nil, SprintActionCreated, Null, Null),
                 ss[i][1], ss[i][2])]

NextActivities == GetActivitiesSteps("w1")

SpecActivities == InitActivities /\ [][NextActivities]_vars

(***************************************************************************)
(* SpecReport: one client calling Start, Complete and GetReport on two     *)
(* Planning sprints whose items do not change.  Among the stores is the    *)
(* one with items A (Done, 5 points) and B (New, 3 points) in sprint 1.    *)
(***************************************************************************)
ReportCalls == 3

ItemA == [SeedItem(1, ItemStatusDone, 5) EXCEPT !.position = 1]
ItemB == [SeedItem(1, ItemStatusNew, 3) EXCEPT !.position = 2]

InitReport ==
  \E sa \in {ItemStatusDone, ItemStatusNew}, rb \in {Nil, 1, 2},
     sb \in {ItemStatusNew, ItemStatusDone}, pb \in {NoValue, 3} :
    Seeded(SeedSprint("alpha", SprintStatusPlanning, NoValue),
           SeedSprint("beta", SprintStatusPlanning, NoValue),
           << SeedItem(1, sa, 5), SeedItem(rb, sb, pb) >>,
           ReportCalls, 0, FALSE)

NextReport ==
  \/ StartSteps("w1")
  \/ CompleteSteps("w1")
  \/ GetReportSteps("w1")

SpecReport == InitReport /\ [][NextReport]_vars

(***************************************************************************)
(* SpecLabels: one client setting the labels of an item with Update and    *)
(* adding and removing single labels.                                      *)
(***************************************************************************)
LabelCalls == 3

InitLabels ==
  Seeded(SeedSprint("alpha", SprintStatusPlanning, NoValue),
         SeedSprint("alpha", SprintStatusPlanning, NoValue),
         << SeedItem(Nil, ItemStatusNew, 1) >>, LabelCalls, 0, FALSE)

NextLabels ==
  \/ AddLabelSteps("w1")
  \/ RemoveLabelSteps("w1")
  \/ \E req \in LabelsRequests : BacklogUpdateCall("w1", 1, req)
  \/ BacklogUpdateSave("w1")
  \/ BacklogUpdateRecordHistory("w1")

SpecLabels == InitLabels /\ [][NextLabels]_vars

(***************************************************************************)
(* SpecBacklog: concurrent Create and Delete calls of the backlog service  *)
(* on a store with one item or none, with ledger inserts that may fail.    *)
(***************************************************************************)
BacklogCalls == 3
BacklogFaults == 1

\* create requests with valid values, with and without a status
CreateRequests ==
  {[NoReq EXCEPT !.project = pj, !.type = "Story", !.priority = "High",
                 !.status = st] :
     pj \in Projects, st \in {Absent, ItemStatusDone}}

InitBacklog ==
  \E rows \in {<< >>, << SeedItem(Nil, ItemStatusNew, 1) >>} :
    Seeded(SeedSprint("alpha", SprintStatusPlanning, NoValue),
           SeedSprint("beta", SprintStatusPlanning, NoValue),
           rows, BacklogCalls, BacklogFaults, FALSE)

NextBacklog ==
  \E p \in Procs :
    \/ BacklogCreateSteps(p, CreateRequests)
    \/ BacklogDeleteSteps(p)

SpecBacklog == InitBacklog /\ [][NextBacklog]_vars

(***************************************************************************)
(* SpecEnums: concurrent Create, Update, UpdateStatus and UpdatePriority   *)
(* calls whose type, priority and status are valid values, absent or a     *)
(* value outside the enumeration.                                          *)
(***************************************************************************)
EnumCalls == 2

EnumCreateRequests ==
  {[NoReq EXCEPT !.project = "alpha", !.type = t, !.priority = pr, !.status = st] :
     t \in {"Story", "Bogus"}, pr \in {"High", "Bogus"},
     st \in {Absent, ItemStatusDone, "Bogus"}}

EnumUpdateRequests ==
  {[NoReq EXCEPT !.type = t, !.priority = pr, !.status = st] :
     t \in {Absent, "Bug", "Bogus"}, pr \in {Absent, "Bogus"},
     st \in {Absent, "Bogus"}}

InitEnums ==
  Seeded(SeedSprint("alpha", SprintStatusPlanning, NoValue),
         SeedSprint("alpha", SprintStatusPlanning, NoValue),
         << SeedItem(Nil, ItemStatusNew, 1) >>, EnumCalls, 0, FALSE)

NextEnums ==
  \E p \in Procs :
    \/ BacklogCreateSteps(p, EnumCreateRequests)
    \/ \E i \in ItemIds, req \in EnumUpdateRequests : BacklogUpdateCall(p, i, req)
    \/ BacklogUpdateSave(p)
    \/ BacklogUpdateRecordHistory(p)
    \/ BacklogUpdateStatusSteps(p)
    \/ BacklogUpdatePrioritySteps(p)

SpecEnums == InitEnums /\ [][NextEnums]_vars

(***************************************************************************)
(* SpecListing: one client listing projects, sprints and backlog items     *)
(* with page and limit values inside and outside their ranges.             *)
(***************************************************************************)
ListCalls == 2

PageInputs == {-1, 0, 1, 2}
LimitInputs == {-1, 0, 1, 2, 100, 101}

InitListing ==
  \E np \in 0..2, ns \in 1..MaxSprints, ni \in 0..NumItems, gone \in BOOLEAN :
    /\ sprints = [s \in SprintIds |->
         IF s <= ns THEN [SeedSprint("alpha", SprintStatusPlanning, NoValue)
                            EXCEPT !.start = IF s = 1 THEN 0 ELSE 1]
         ELSE NoSprint]
    /\ items = [i \in ItemIds |->
         IF i <= ni THEN [SeedItem(Nil, ItemStatusNew, 1) EXCEPT
                            !.position = i, !.deleted = gone /\ i = 1]
         ELSE NoItem]
    /\ projects = SubSeq(SeedProjects, 1, np)
    /\ sprintHistory = << >>
    /\ itemHistory = << >>
    /\ procs = [p \in Procs |-> IdleProc]
    /\ budget = [calls |-> ListCalls, faults |-> 0, observe |-> FALSE,
                 mark |-> NoMark]

NextListing ==
  \/ \E page \in PageInputs, limit \in LimitInputs :
       ProjectGetAllWithPagination("w1", page, limit)
  \/ \E page \in PageInputs, limit \in LimitInputs : SprintGetAll("w1", page, limit)
  \/ \E page \in PageInputs, limit \in LimitInputs : BacklogGetAll("w1", page, limit)
  \/ ListFind("w1")

SpecListing == InitListing /\ [][NextListing]_vars

(***************************************************************************)
(* SpecProjects: concurrent Create calls of the project service on a store *)
(* with one project, and a second one that is there, deleted or absent.    *)
(***************************************************************************)
ProjectCalls == 3

\* the keys the requests carry
KeyInputs == {<<"a">>, <<"A">>, <<Space, "a", Space>>, <<"b">>, <<"c", "B">>}

InitProjects ==
  \E second \in {<< >>, << ProjectRow(<<"B">>) >>,
                  << [ProjectRow(<<"B">>) EXCEPT !.deleted = TRUE] >>} :
    /\ sprints = [s \in SprintIds |->
         IF s = 1 THEN SeedSprint("alpha", SprintStatusPlanning, NoValue)
         ELSE NoSprint]
    /\ items = [i \in ItemIds |-> NoItem]
    /\ projects = << ProjectRow(<<"A">>) >> \o second
    /\ sprintHistory = SeedHistory(1, sprints[1])
    /\ itemHistory = << >>
    /\ procs = [p \in Procs |-> IdleProc]
    /\ budget = [calls |-> ProjectCalls, faults |-> 0, observe |-> FALSE,
                 mark |-> NoMark]

NextProjects ==
  \E p \in Procs :
    \/ \E key \in KeyInputs : ProjectCreateCall(p, key)
    \/ ProjectCreateInsert(p)

SpecProjects == InitProjects /\ [][NextProjects]_vars

(***************************************************************************)
(* SpecDual: one client changing the sprint of items with AddItem and      *)
(* RemoveItem of the sprint service and Create and Update of the backlog   *)
(* service; every ledger insert lands.  At the start one item is in no     *)
(* sprint and the ledgers hold no membership row.                          *)
(***************************************************************************)
DualCalls == 2

\* requests that carry a sprint only
SprintRequests == {[NoReq EXCEPT !.sprint = s] : s \in 1..2}

\* create requests with valid values, with and without a sprint
DualCreateRequests ==
  {[NoReq EXCEPT !.project = "alpha", !.type = "Story", !.priority = "High",
                 !.sprint = s] : s \in {NoValue, 1}}

InitDual ==
  Seeded(SeedSprint("alpha", SprintStatusPlanning, NoValue),
         SeedSprint("alpha", SprintStatusActive, NoValue),
         << SeedItem(Nil, ItemStatusNew, 1) >>, DualCalls, 0, FALSE)

NextDual ==
  \/ AddItemSteps("w1")
  \/ RemoveItemSteps("w1")
  \/ \E i \in ItemIds, req \in SprintRequests : BacklogUpdateCall("w1", i, req)
  \/ BacklogUpdateSave("w1")
  \/ BacklogUpdateRecordHistory("w1")
  \/ BacklogCreateSteps("w1", DualCreateRequests)

SpecDual == InitDual /\ [][NextDual]_vars

(***************************************************************************)
(* SpecUpdate: one Update call of the backlog service on an item with an   *)
(* empty ledger; the request carries any of status, story points, labels   *)
(* and sprint reference, each with the stored value or another one.        *)
(***************************************************************************)
UpdatedItem == [SeedItem(1, ItemStatusNew, 1) EXCEPT !.position = 1]

UpdateRequests ==
  {[NoReq EXCEPT !.status = st, !.points = n, !.labels = ls, !.sprint = s] :
     st \in {Absent, ItemStatusNew, ItemStatusDone}, n \in {NoValue, 1, 2},
     ls \in {{}, {<< >>}, {<< <<"a">> >>}}, s \in {NoValue, 1, 2}}

InitUpdate ==
  /\ sprints = [s \in SprintIds |->
       IF s <= 2 THEN SeedSprint("alpha", SprintStatusPlanning, NoValue)
       ELSE NoSprint]
  /\ items = [i \in ItemIds |-> IF i = 1 THEN UpdatedItem ELSE NoItem]
  /\ projects = SeedProjects
  /\ sprintHistory = << >>
  /\ itemHistory = << >>
  /\ procs = [p \in Procs |-> IdleProc]
  /\ budget = [calls |-> 1, faults |-> 0, observe |-> FALSE, mark |-> NoMark]

NextUpdate ==
  \/ \E i \in ItemIds, req \in UpdateRequests : BacklogUpdateCall("w1", i, req)
  \/ BacklogUpdateSave("w1")
  \/ BacklogUpdateRecordHistory("w1")

SpecUpdate == InitUpdate /\ [][NextUpdate]_vars

(***************************************************************************)
(* SpecSprintUpdate: one Update call of the sprint service; the request    *)
(* carries any of name, goal, start date and end date, each with the       *)
(* stored value, with blanks around it, or with another value.             *)
(***************************************************************************)
UpdatedSprint == SeedSprint("alpha", SprintStatusPlanning, NoValue)

NameInputs == {<< >>, <<"s">>, <<"s", Space>>, <<"t">>}
GoalInputs == {<< >>, <<"g">>, <<Space>>}

InitSprintUpdate ==
  Seeded(UpdatedSprint, SeedSprint("alpha", SprintStatusActive, NoValue),
         << >>, 1, 0, FALSE)

NextSprintUpdate ==
  \/ \E id \in SprintIds, name \in NameInputs, goal \in GoalInputs,
        sd \in {0, 1, 2}, ed \in {0, 2, 3} :
       SprintUpdateCall("w1", id, name, goal, sd, ed)
  \/ UpdateSave("w1")
  \/ UpdateRecordHistory("w1")

SpecSprintUpdate == InitSprintUpdate /\ [][NextSprintUpdate]_vars

(***************************************************************************)
(* SpecLabelSets: one client creating items without labels or with a list  *)
(* of them, setting the list with Update, and adding and removing single   *)
(* labels.  Item 1 was created with the empty list.                        *)
(***************************************************************************)
LabelSetCalls == 3

\* the lists a request carries: no label, one, two, and one label twice
LabelLists == {<< >>, << <<"a">> >>, << <<"a">>, <<"b">> >>, << <<"a">>, <<"a">> >>}

\* create requests without the labels field and with each list
LabelSetCreateRequests ==
  {[NoReq EXCEPT !.project = "alpha", !.type = "Story", !.priority = "High",
                 !.labels = ls] :
     ls \in {{}} \cup {{l} : l \in LabelLists}}

\* update requests that carry a list of labels only
LabelSetUpdateRequests == {[NoReq EXCEPT !.labels = {ls}] : ls \in LabelLists}

InitLabelSets ==
  Seeded(SeedSprint("alpha", SprintStatusPlanning, NoValue),
         SeedSprint("alpha", SprintStatusPlanning, NoValue),
         << SeedItem(Nil, ItemStatusNew, 1) >>, LabelSetCalls, 0, FALSE)

NextLabelSets ==
  \/ BacklogCreateSteps("w1", LabelSetCreateRequests)
  \/ \E i \in ItemIds, req \in LabelSetUpdateRequests : BacklogUpdateCall("w1", i, req)
  \/ BacklogUpdateSave("w1")
  \/ BacklogUpdateRecordHistory("w1")
  \/ AddLabelSteps("w1")
  \/ RemoveLabelSteps("w1")

SpecLabelSets == InitLabelSets /\ [][NextLabelSets]_vars

(***************************************************************************)
(* Properties.                                                             *)
(***************************************************************************)
store == <<sprints, items, sprintHistory, itemHistory>>

ActiveSprints(pj) ==
  {s \in SprintIds : sprints[s].exists /\ ~sprints[s].deleted
                      /\ sprints[s].project = pj
                      /\ sprints[s].status = SprintStatusActive}

\* C1: in every reachable state of the store each project has at most one
\* sprint with status Active.
AtMostOneActivePerProject ==
  \A pj \in Projects : Cardinality(ActiveSprints(pj)) <= 1

\* C2: of two Start calls that run concurrently on two different Planning
\* sprints of the same project at most one returns success.  (Under
\* SpecStart no sprint ever leaves Active, so two successes on two sprints
\* of one project are two calls that overlapped.)
ConcurrentStartsExclusive ==
  ~ \E p \in Procs, q \in Procs :
      /\ p # q
      /\ procs[p].op = "Start" /\ procs[q].op = "Start"
      /\ Idle(p) /\ Idle(q)
      /\ procs[p].res = Ok /\ procs[q].res = Ok
      /\ procs[p].sid # procs[q].sid
      /\ sprints[procs[p].sid].project = sprints[procs[q].sid].project

\* another sprint of s's project is Active in the store
SiblingActive(s) ==
  \E s1 \in SprintIds :
    /\ s1 # s
    /\ sprints[s1].exists /\ ~sprints[s1].deleted
    /\ sprints[s1].project = sprints[s].project
    /\ sprints[s1].status = SprintStatusActive

IsPlanningInStore(s) ==
  /\ s \in SprintIds
  /\ sprints[s].exists /\ ~sprints[s].deleted
  /\ sprints[s].status = SprintStatusPlanning

\* C3: Start(S2) on a Planning sprint S2 whose project has an Active sprint
\* S1 passes the status check, then fails at the active-sprint check with
\* SprintAlreadyActive; S2 stays Planning, S1 stays Active and no ledger
\* row is appended.
StartBlockedByActiveSprint ==
  [][\A p \in Procs :
       /\ \A id \in SprintIds :
            (StartCall(p, id) /\ IsPlanningInStore(id))
              => /\ procs'[p].pc = "getActive"
                 /\ UNCHANGED store
       /\ (StartGetActive(p) /\ IsPlanningInStore(procs[p].sid)
             /\ SiblingActive(procs[p].sid))
            => /\ procs'[p].pc = "idle"
               /\ procs'[p].res = ErrSprintAlreadyActive
               /\ UNCHANGED store]_vars

StartWasBlocked ==
  \E p \in Procs :
    /\ procs[p].op = "Start" /\ Idle(p)
    /\ procs[p].res = ErrSprintAlreadyActive
    /\ IsPlanningInStore(procs[p].sid)
    /\ SiblingActive(procs[p].sid)

LifecycleEdges ==
  { <<SprintStatusPlanning, SprintStatusActive>>,
    <<SprintStatusActive, SprintStatusCompleted>>,
    <<SprintStatusActive, SprintStatusCancelled>>,
    <<SprintStatusPlanning, SprintStatusCancelled>> }

\* C4: a sprint's stored status only changes along Planning->Active,
\* Active->Completed, Active->Cancelled and Planning->Cancelled; a new sprint
\* starts in Planning; a Completed or Cancelled sprint never changes status.
StatusFollowsLifecycle ==
  [][\A s \in SprintIds :
       /\ (sprints[s].exists /\ sprints'[s].status # sprints[s].status)
            => <<sprints[s].status, sprints'[s].status>> \in LifecycleEdges
       /\ (~sprints[s].exists /\ sprints'[s].exists)
            => sprints'[s].status = SprintStatusPlanning]_vars

\* the row of id, as the queries see it, has one of the given statuses
StoredStatusIn(id, statuses) ==
  /\ sprints[id].exists /\ ~sprints[id].deleted
  /\ sprints[id].status \in statuses

FailsWith(p, err) ==
  /\ procs'[p].pc = "idle"
  /\ procs'[p].res = err
  /\ UNCHANGED store

\* C5: Start on a sprint that is not Planning returns SprintNotPlanning,
\* Complete on a sprint that is not Active returns SprintNotActive, Cancel
\* on a Completed or Cancelled sprint returns SprintNotActive; each leaves
\* the sprint's status and velocity and both ledgers unchanged.
GuardFailuresChangeNothing ==
  [][\A p \in Procs, id \in SprintIds :
       /\ (StartCall(p, id)
             /\ StoredStatusIn(id, SprintStatuses \ {SprintStatusPlanning}))
            => FailsWith(p, ErrSprintNotPlanning)
       /\ (CompleteCall(p, id)
             /\ StoredStatusIn(id, SprintStatuses \ {SprintStatusActive}))
            => FailsWith(p, ErrSprintNotActive)
       /\ (CancelCall(p, id)
             /\ StoredStatusIn(id, {SprintStatusCompleted, SprintStatusCancelled}))
            => FailsWith(p, ErrSprintNotActive)]_vars

GuardFailuresSeen ==
  /\ \E p \in Procs :
       /\ procs[p].op = "Cancel" /\ Idle(p) /\ procs[p].res = ErrSprintNotActive
       /\ StoredStatusIn(procs[p].sid, {SprintStatusCompleted})
  /\ \E p \in Procs :
       /\ procs[p].op = "Start" /\ Idle(p) /\ procs[p].res = ErrSprintNotPlanning
       /\ StoredStatusIn(procs[p].sid, {SprintStatusCompleted})

\* the story points item i adds to the velocity of sprint s
DonePoints(i, s) ==
  IF /\ items[i].exists /\ ~items[i].deleted
     /\ items[i].sprint = s
     /\ items[i].status = ItemStatusDone
     /\ items[i].points # NoValue
    THEN items[i].points ELSE 0

RECURSIVE DoneSumUpTo(_, _)
DoneSumUpTo(n, s) == IF n = 0 THEN 0 ELSE DonePoints(n, s) + DoneSumUpTo(n - 1, s)

DoneSum(s) == DoneSumUpTo(NumItems, s)

\* C6: the velocity stored when S becomes Completed is the sum of
\* the story points of the items that are in S and Done in the store at
\* that very step.
VelocityIsSumAtCompletion ==
  [][\A p \in Procs :
       (/\ CompleteUpdate(p)
        /\ sprints[procs[p].sid].status # SprintStatusCompleted
        /\ sprints'[procs[p].sid].status = SprintStatusCompleted)
         => sprints'[procs[p].sid].velocity = DoneSum(procs[p].sid)]_vars

\* C7: GetReport reads the sprint row and returns the velocity stored on it
\* when there is one, else the completedStoryPoints of the sprint's current
\* items; and the stored velocity is written by the Complete write alone,
\* never by an item status or story-point change, AddItem or RemoveItem.
ReportVelocityIsStored ==
  [][/\ \A p \in Procs :
          /\ \A id \in SprintIds :
               (GetReportCall(p, id) /\ StoredStatusIn(id, SprintStatuses))
                 => procs'[p].sprint.velocity = sprints[id].velocity
          /\ GetReportItems(p)
               => /\ procs'[p].res = Ok
                  /\ procs'[p].report.velocity =
                       IF procs[p].sprint.velocity # NoValue
                         THEN procs[p].sprint.velocity
                         ELSE DoneSum(procs[p].sid)
     /\ (\E s \in SprintIds : sprints'[s].velocity # sprints[s].velocity)
          => \E p \in Procs : CompleteUpdate(p)]_vars

ReportKeepsFrozenVelocity ==
  \E p \in Procs :
    /\ procs[p].op = "GetReport" /\ Idle(p) /\ procs[p].res = Ok
    /\ sprints[procs[p].sid].status = SprintStatusCompleted
    /\ procs[p].report.velocity = sprints[procs[p].sid].velocity
    /\ procs[p].report.velocity # procs[p].report.completedStoryPoints

\* the date a request date leaves on the sprint: a zero date is "absent"
Resulting(requested, stored) == IF requested # 0 THEN requested ELSE stored

\* C8: every stored sprint has EndDate strictly after StartDate; a Create
\* whose EndDate is not after its StartDate, and an Update whose resulting
\* pair has EndDate not after StartDate, fail with InvalidDateRange and leave
\* the sprints and the ledgers unchanged.
DateRangeAlwaysValid ==
  /\ [](\A s \in SprintIds : sprints[s].exists => sprints[s].end > sprints[s].start)
  /\ [][\A p \in Procs, sd \in Dates, ed \in Dates :
          /\ \A pj \in Projects :
               (~(ed > sd) /\ CreateCall(p, pj, sd, ed))
                 => FailsWith(p, ErrInvalidDateRange)
          /\ \A id \in SprintIds :
               (/\ StoredStatusIn(id, SprintStatuses)
                /\ ~(Resulting(ed, sprints[id].end) > Resulting(sd, sprints[id].start))
                /\ UpdateCall(p, id, sd, ed))
                 => FailsWith(p, ErrInvalidDateRange)]_vars

DateRangeRejectedAndChanged ==
  \E p \in Procs, q \in Procs :
    /\ procs[p].op = "Update" /\ Idle(p) /\ procs[p].res = ErrInvalidDateRange
    /\ procs[q].op = "Update" /\ Idle(q) /\ procs[q].res = Ok
    /\ sprints[procs[q].sid].exists
    /\ <<sprints[procs[q].sid].start, sprints[procs[q].sid].end>> # <<1, 2>>

(***************************************************************************)
(* AddItem followed by RemoveItem, as the client of SpecItems sees it.     *)
(***************************************************************************)
\* worker p has returned from the RemoveItem(S, I) it called right after its
\* successful AddItem(S, I)
PairDone(p) ==
  /\ procs[p].op = "RemoveItem" /\ Idle(p) /\ procs[p].res = Ok
  /\ budget.mark.stage = "pair"
  /\ budget.mark.sid = procs[p].sid /\ budget.mark.iid = procs[p].iid

NewSprintRows == SubSeq(sprintHistory, budget.mark.sh + 1, Len(sprintHistory))
NewItemRows == SubSeq(itemHistory, budget.mark.ih + 1, Len(itemHistory))

SameRow(r, a) == r.action = a.action /\ r = a

\* rows is <<a, b>> with some of its rows left out
RowsOfPair(rows, a, b) ==
  \/ Len(rows) = 0
  \/ Len(rows) = 1 /\ (SameRow(rows[1], a) \/ SameRow(rows[1], b))
  \/ Len(rows) = 2 /\ SameRow(rows[1], a) /\ SameRow(rows[2], b)

ItemCallIsOneUnit ==
  \A p \in Procs :
    (/\ procs[p].op \in {"AddItem", "RemoveItem"} /\ Idle(p)
     /\ budget.mark.stage \in {"add", "pair", "remove"}
     /\ budget.mark.sid = procs[p].sid /\ budget.mark.iid = procs[p].iid)
      => LET I == procs[p].iid
             rowsS == Len(sprintHistory) - budget.mark.sh0
             rowsI == Len(itemHistory) - budget.mark.ih0
         IN \/ /\ items[I].sprint # budget.mark.prior0
               /\ rowsS = 1 /\ rowsI = 1
            \/ /\ items[I].sprint = budget.mark.prior0
               /\ rowsS = 0 /\ rowsI = 0

\* the item row of id is there for the queries
ItemInStore(id) == items[id].exists /\ ~items[id].deleted

\* C11: AddItem(S, I) fails with ItemAlreadyInSprint exactly when I's sprint
\* reference equals S, RemoveItem(S, I) fails with ItemNotInSprint exactly
\* when I's sprint reference is not S (empty or another sprint); a missing
\* sprint gives SprintNotFound and a missing item ItemNotFound; every failing
\* case leaves the item's sprint reference and both ledgers unchanged.
MembershipFailures ==
  [][\A p \in Procs :
       /\ \A S \in SprintIds, I \in ItemIds :
            (/\ ~StoredStatusIn(S, SprintStatuses)
             /\ AddItemCall(p, S, I) \/ RemoveItemCall(p, S, I))
              => FailsWith(p, ErrSprintNotFound)
       /\ (AddItemGetItem(p) \/ RemoveItemGetItem(p))
            => LET S == procs[p].sid
                   I == procs[p].iid
                   failed == procs'[p].pc = "idle"
               IN /\ ~ItemInStore(I) => FailsWith(p, ErrBacklogItemNotFound)
                  /\ failed => UNCHANGED store
                  /\ (ItemInStore(I) /\ procs[p].op = "AddItem")
                       => /\ failed <=> items[I].sprint = S
                          /\ failed => procs'[p].res = ErrItemAlreadyInSprint
                  /\ (ItemInStore(I) /\ procs[p].op = "RemoveItem")
                       => /\ failed <=> items[I].sprint # S
                          /\ failed => procs'[p].res = ErrItemNotInSprint]_vars

\* a RemoveItem was refused for an item that sits in another sprint and an
\* AddItem for an item that sits in the sprint named
MembershipFailuresSeen ==
  /\ procs["w1"].pc = "idle" /\ procs["w2"].pc = "idle"
  /\ procs["w1"].op = "RemoveItem" /\ procs["w1"].res = ErrItemNotInSprint
  /\ items[procs["w1"].iid].sprint \notin {Nil, procs["w1"].sid}
  /\ procs["w2"].op = "AddItem" /\ procs["w2"].res = ErrItemAlreadyInSprint
  /\ items[procs["w2"].iid].sprint = procs["w2"].sid
  /\ store = <<sprints, items, SeedHistory(1, sprints[1]) \o SeedHistory(2, sprints[2]),
               << >> >>

\* C12: when the state update of a mutating operation succeeds and the
\* history write that goes with it fails, the operation returns an error to
\* its caller instead of reporting success.
HistoryFailureIsReported ==
  \A p \in Procs : (Idle(p) /\ procs[p].dropped > 0) => procs[p].res # Ok

\* the SprintHistory row a lifecycle call on sprint s writes
LifecycleRow(op, s, r) ==
  /\ r.sprint = s
  /\ \/ op = "Create" /\ r.action = SprintActionCreated
     \/ /\ op = "Start" /\ r.action = SprintActionStarted
        /\ r.old = SprintStatusPlanning /\ r.new = SprintStatusActive
     \/ /\ op = "Complete" /\ r.action = SprintActionCompleted
        /\ r.old = SprintStatusActive
        /\ r.new.status = SprintStatusCompleted
        /\ r.new.velocity = sprints[s].velocity
     \/ /\ op = "Cancel" /\ r.action = SprintActionCancelled
        /\ r.old \in {SprintStatusPlanning, SprintStatusActive}
        /\ r.new = SprintStatusCancelled

LifecycleRows(op, s) ==
  {i \in 1..Len(sprintHistory) : LifecycleRow(op, s, sprintHistory[i])}

\* C13: each successful sprint Create, Start, Complete and Cancel appends
\* exactly one SprintHistory row for that sprint with action Created,
\* Started, Completed and Cancelled (Start and Cancel with old and new
\* status, Complete with old status and new {status, velocity}); after the
\* call returns no sprint has a status change that lacks its history row.
LifecycleCallsLeaveTheirRow ==
  \A p \in Procs :
    (/\ Idle(p) /\ procs[p].res = Ok
     /\ procs[p].op \in {"Create", "Start", "Complete", "Cancel"})
      => LifecycleRows(procs[p].op, procs[p].sid) # {}

\* the rows of a ledger that user u wrote
RowsOf(ledger, u) == {i \in DOMAIN ledger : ledger[i].user = u}

\* worker p has the response of a GetActivities call
Answered(p) == Idle(p) /\ procs[p].op = "GetActivities" /\ procs[p].res = Ok

\* C14: for every user and limit, GetActivities returns total = the number of
\* the user's item-history entries plus the number of the user's
\* sprint-history entries; it returns all of them when limit <= 0 or
\* total <= limit and exactly limit entries when limit > 0 and total > limit;
\* the limit field of the response is the requested limit.
ActivitiesTotalAndLimit ==
  \A p \in Procs :
    Answered(p) =>
      LET n == Cardinality(RowsOf(itemHistory, procs[p].user))
                 + Cardinality(RowsOf(sprintHistory, procs[p].user))
          l == procs[p].limit
      IN /\ procs[p].acts.total = n
         /\ Len(procs[p].acts.activities) = IF l <= 0 \/ n <= l THEN n ELSE l
         /\ procs[p].acts.limit = l

\* a response cut to its limit, for a user with rows in both ledgers, next
\* to rows of the other user
ActivitiesCutToLimit ==
  \E p \in Procs :
    /\ Answered(p)
    /\ procs[p].limit > 0 /\ procs[p].acts.total > procs[p].limit
    /\ Len(procs[p].acts.activities) = procs[p].limit
    /\ RowsOf(itemHistory, procs[p].user) # {}
    /\ RowsOf(sprintHistory, procs[p].user) # {}
    /\ \E u \in Users \ {procs[p].user} :
         Cardinality(RowsOf(itemHistory, u)) + Cardinality(RowsOf(sprintHistory, u)) > 0

\* the ledger row an entry of a response stands for
RowOfEntry(e) == IF e.type = "item" THEN itemHistory[e.id] ELSE sprintHistory[e.id]

\* every entry the user has in the two ledgers
EntriesOf(u) ==
  {[type |-> "item", id |-> i, ts |-> itemHistory[i].ts] : i \in RowsOf(itemHistory, u)}
    \cup {[type |-> "sprint", id |-> i, ts |-> sprintHistory[i].ts] :
             i \in RowsOf(sprintHistory, u)}

\* C15: the list GetActivities returns is the merge of both ledgers sorted by
\* timestamp descending and then truncated: each entry is tagged item or
\* sprint after its ledger of origin, consecutive entries have non-increasing
\* timestamps, and every returned entry is at least as new as every entry
\* left out.
ActivitiesNewestOfMerge ==
  \A p \in Procs :
    Answered(p) =>
      LET list == procs[p].acts.activities
          all == EntriesOf(procs[p].user)
      IN /\ Range(list) \subseteq all
         /\ \A i \in DOMAIN list, j \in DOMAIN list : i # j => list[i] # list[j]
         /\ \A i \in DOMAIN list : i > 1 => list[i - 1].ts >= list[i].ts
         /\ \A e \in Range(list), o \in all \ Range(list) : e.ts >= o.ts

\* a response cut to its limit in which a sprint entry comes before an older
\* item entry, with an item entry and a sprint entry left out
ActivitiesSprintBeforeOlderItem ==
  \E p \in Procs :
    /\ Answered(p)
    /\ LET list == procs[p].acts.activities
           out == EntriesOf(procs[p].user) \ Range(list)
       IN /\ Len(list) = 2
          /\ list[1].type = "sprint" /\ list[2].type = "item"
          /\ list[1].ts > list[2].ts
          /\ \E o \in out : o.type = "item"
          /\ \E o \in out : o.type = "sprint"

\* the items of sprint s, and the Done ones among them
ItemsIn(s) == {i \in ItemIds : ItemInStore(i) /\ items[i].sprint = s}
DoneIn(s) == {i \in ItemsIn(s) : items[i].status = ItemStatusDone}

\* the story points of item i if it is one of sprint s, an absent value
\* counting as 0
PointsIn(i, s) ==
  IF i \in ItemsIn(s) /\ items[i].points # NoValue THEN items[i].points ELSE 0

RECURSIVE TotalSumUpTo(_, _)
TotalSumUpTo(n, s) == IF n = 0 THEN 0 ELSE PointsIn(n, s) + TotalSumUpTo(n - 1, s)

\* worker p has the report of a GetReport call
Reported(p) == Idle(p) /\ procs[p].op = "GetReport" /\ procs[p].res = Ok

\* C17: GetReport returns totalItems = the number of items whose sprint
\* reference is the sprint, completedItems = the number of those that are
\* Done, totalStoryPoints = the sum of their story points,
\* completedStoryPoints = the sum over the Done ones (absent points count as
\* 0) and completionPercentage = completedItems/totalItems x 100 (in whole
\* percents), 0 when there are no items; for a Planning sprint with items
\* A(Done, 5) and B(New, 3), Start then Complete then GetReport yields
\* 2, 1, 8, 5, 50 and velocity 5.
ReportStatistics ==
  \A p \in Procs :
    Reported(p) =>
      LET s == procs[p].sid
          r == procs[p].report
          total == Cardinality(ItemsIn(s))
          done == Cardinality(DoneIn(s))
      IN /\ r.totalItems = total
         /\ r.completedItems = done
         /\ r.totalStoryPoints = TotalSumUpTo(NumItems, s)
         /\ r.completedStoryPoints = DoneSum(s)
         /\ total = 0 => r.completionPercentage = 0
         /\ total > 0 =>
              /\ r.completionPercentage * total <= done * 100
              /\ (r.completionPercentage + 1) * total > done * 100
         /\ (/\ s = 1 /\ items[1] = ItemA /\ items[2] = ItemB
             /\ sprints[1].status = SprintStatusCompleted)
              => r = [totalItems |-> 2, completedItems |-> 1,
                      totalStoryPoints |-> 8, completedStoryPoints |-> 5,
                      completionPercentage |-> 50, velocity |-> 5]

\* the report of sprint 1 with items A and B after Start and Complete
ReportOfTheScenario ==
  /\ Reported("w1") /\ procs["w1"].sid = 1
  /\ items[1] = ItemA /\ items[2] = ItemB
  /\ sprints[1].status = SprintStatusCompleted
  /\ Len(sprintHistory) = 4
  /\ sprintHistory[3].action = SprintActionStarted
  /\ sprintHistory[4].action = SprintActionCompleted
  /\ procs["w1"].report.velocity = 5

\* C16: for every item and label L already present in the item's labels,
\* AddLabel(item, L) leaves the labels unchanged: L still occurs exactly once
\* and no other label is added or removed.  (The call carries L with its
\* blanks trimmed.)
AddLabelOfPresentLabelIsNoOp ==
  [][\A p \in Procs :
       AddLabelWrite(p) =>
         \A L \in LabelInputs :
           (/\ TrimSpace(L) = procs[p].req.label
            /\ \E k \in DOMAIN items[procs[p].iid].labels :
                 items[procs[p].iid].labels[k] = L)
             => items'[procs[p].iid].labels = items[procs[p].iid].labels]_vars

\* the largest position among the items of project pj, 0 when it has none
MaxPositionIn(pj) ==
  IF \E i \in ItemIds : ItemInStore(i) /\ items[i].project = pj
    THEN CHOOSE m \in 1..NumItems + 1 :
           /\ \E i \in ItemIds :
                ItemInStore(i) /\ items[i].project = pj /\ items[i].position = m
           /\ \A i \in ItemIds :
                (ItemInStore(i) /\ items[i].project = pj) => items[i].position <= m
  ELSE 0

\* the rows of the item ledger with action Created for item i
CreatedRows(i) ==
  {k \in DOMAIN itemHistory :
     itemHistory[k].action = ItemActionCreated /\ itemHistory[k].item = i}

\* C18: a successful backlog item Create stores the item with status New
\* when the request gives no status (else the given valid status), with
\* position = the current maximum position among the project's items plus 1
\* (1 for the first item), and appends exactly one ItemHistory row with
\* action Created for the new item.
CreateStoresItemAndRow ==
  /\ [](\A p \in Procs :
          (Idle(p) /\ procs[p].op = "CreateItem" /\ procs[p].res = Ok)
            => Cardinality(CreatedRows(procs[p].iid)) = 1)
  /\ [][\A p \in Procs :
          /\ \A req \in CreateRequests :
               BacklogCreateCall(p, req) =>
                 /\ procs'[p].pc = "create"
                 /\ procs'[p].item.status =
                      IF req.status = Absent THEN ItemStatusNew ELSE req.status
                 /\ procs'[p].item.position = MaxPositionIn(req.project) + 1
                 /\ procs'[p].item.project = req.project
          /\ BacklogCreateInsert(p) =>
               /\ ~items[procs'[p].iid].exists
               /\ items'[procs'[p].iid] = procs[p].item
               /\ \A i \in ItemIds \ {procs'[p].iid} : items'[i] = items[i]]_vars

\* C19: within one project, item positions are strictly increasing in
\* creation order and never reused: no two items ever created in the project
\* (deleted ones included) were given the same position.
PositionsNeverReused ==
  \A i \in ItemIds, j \in ItemIds :
    (/\ i < j /\ items[i].exists /\ items[j].exists
     /\ items[i].project = items[j].project)
      => items[i].position < items[j].position

\* the errors a request may get for the values it carries outside the
\* enumerations ("" is a field the request does not carry)
EnumErrors(type, priority, status) ==
  (IF type \notin {"Story", "Bug", "Task", "Epic"} THEN {ErrInvalidItemType} ELSE {})
    \cup (IF priority \notin {"Critical", "High", "Medium", "Low"}
            THEN {ErrInvalidPriority} ELSE {})
    \cup (IF status \notin {"New", "Ready", "In Progress", "Done", "Archived"}
            THEN {ErrInvalidStatus} ELSE {})

\* the call of p is refused with one of the errors and nothing is written
RefusedWith(p, errors) ==
  /\ procs'[p].pc = "idle"
  /\ procs'[p].res \in errors
  /\ UNCHANGED store

\* C20: after any sequence of backlog Create, Update, UpdateStatus and
\* UpdatePriority calls every stored item has its type in {Story, Bug, Task,
\* Epic}, its priority in {Critical, High, Medium, Low} and its status in
\* {New, Ready, In Progress, Done, Archived}; a call carrying a value
\* outside these sets fails with InvalidItemType, InvalidPriority or
\* InvalidStatus and leaves the stored item and the item history unchanged.
EnumsAlwaysValid ==
  /\ [](\A i \in ItemIds :
          items[i].exists => EnumErrors(items[i].type, items[i].priority,
                                        items[i].status) = {})
  /\ [][\A p \in Procs :
          (\A q \in Procs \ {p} : procs'[q] = procs[q]) =>
          /\ \A req \in EnumCreateRequests :
               LET errors == EnumErrors(req.type, req.priority,
                               IF req.status = Absent THEN "New" ELSE req.status)
               IN (errors # {} /\ BacklogCreateCall(p, req))
                    => RefusedWith(p, errors)
          /\ \A i \in ItemIds, req \in EnumUpdateRequests :
               LET errors == EnumErrors(
                               IF req.type = Absent THEN "Task" ELSE req.type,
                               IF req.priority = Absent THEN "Low" ELSE req.priority,
                               IF req.status = Absent THEN "New" ELSE req.status)
               IN (errors # {} /\ ItemInStore(i) /\ BacklogUpdateCall(p, i, req))
                    => RefusedWith(p, errors)
          /\ \A i \in ItemIds, st \in ItemStatusInputs :
               (EnumErrors("Task", "Low", st) # {} /\ BacklogUpdateStatusCall(p, i, st))
                 => RefusedWith(p, {ErrInvalidStatus})
          /\ \A i \in ItemIds, pr \in PriorityInputs :
               (EnumErrors("Task", pr, "New") # {}
                  /\ BacklogUpdatePriorityCall(p, i, pr))
                 => RefusedWith(p, {ErrInvalidPriority})]_vars

\* an Update with a value outside the sets was refused next to a Create that
\* stored an item with the values of its request
EnumRefusedAndStored ==
  \E p \in Procs, q \in Procs :
    /\ Idle(p) /\ procs[p].op = "UpdateItem" /\ procs[p].res = ErrInvalidItemType
    /\ Idle(q) /\ procs[q].op = "CreateItem" /\ procs[q].res = Ok
    /\ items[procs[q].iid].type = "Story"
    /\ items[procs[q].iid].status = ItemStatusDone

(***************************************************************************)
(* The categories of the error taxonomy.                                   *)
(***************************************************************************)
ConflictState ==
  {ErrSprintAlreadyActive, ErrItemAlreadyInSprint, ErrItemNotInSprint,
   ErrSprintNotPlanning, ErrSprintNotActive}
ValidationFailed ==
  {ErrInvalidDateRange, ErrInvalidStatus, ErrInvalidItemType, ErrInvalidPriority}
NotFound == {ErrSprintNotFound, ErrBacklogItemNotFound}

\* C21: a call that ended with one of the five state-conflict errors is
\* answered with the conflict response (409), and no call that ended with a
\* validation failure or a not-found error is answered with it.
ConflictsAreOneCategory ==
  \A p \in Procs :
    Idle(p) /\ procs[p].op # "none" =>
      /\ procs[p].res \in ConflictState => procs[p].http = StatusConflict
      /\ procs[p].res \in ValidationFailed \cup NotFound
           => procs[p].http # StatusConflict

(***************************************************************************)
(* Listings.                                                               *)
(***************************************************************************)
ListOps == {"ListProjects", "ListSprints", "ListItems"}

\* the rows a listing counts
Countable(op) ==
  IF op = "ListProjects" THEN {i \in DOMAIN projects : ~projects[i].deleted}
  ELSE IF op = "ListSprints"
    THEN {s \in SprintIds : sprints[s].exists /\ ~sprints[s].deleted}
  ELSE {i \in ItemIds : items[i].exists /\ ~items[i].deleted}

Listing(p) == Idle(p) /\ procs[p].op \in ListOps /\ procs[p].res = Ok

\* C22: a listing answers with page 1 for a page below 1, limit 10 for a
\* limit below 1 and limit 100 for a limit above 100, and the values asked
\* for otherwise; total is the number of rows, total_pages is total divided
\* by the reported limit, rounded up, and the rows are those of the
\* reported page at the reported limit.
ListingNormalised ==
  \A p \in Procs :
    Listing(p) =>
      LET page == procs[p].page
          limit == procs[p].limit
          l == procs[p].list
          before == (l.page - 1) * l.limit
          left == IF l.total > before THEN l.total - before ELSE 0
      IN /\ l.page = (IF page < 1 THEN 1 ELSE page)
         /\ l.limit = (IF limit < 1 THEN 10 ELSE IF limit > 100 THEN 100 ELSE limit)
         /\ l.total = Cardinality(Countable(procs[p].op))
         /\ l.totalPages * l.limit >= l.total
         /\ (l.totalPages - 1) * l.limit < l.total
         /\ Len(l.rows) = (IF left < l.limit THEN left ELSE l.limit)

\* a listing asked with a limit above 100 and no page was answered with
\* limit 100, page 1 and all the rows on its one page
ListingCappedAndDefaulted ==
  \E p \in Procs :
    /\ Listing(p)
    /\ procs[p].limit > 100 /\ procs[p].page < 1
    /\ procs[p].list.limit = 100 /\ procs[p].list.page = 1
    /\ procs[p].list.total > 1
    /\ procs[p].list.totalPages = 1
    /\ Len(procs[p].list.rows) = procs[p].list.total

(***************************************************************************)
(* Projects.                                                               *)
(***************************************************************************)
\* the requested keys, trimmed and in upper case
Normalised(key) ==
  IF key \in {<<"a">>, <<"A">>, <<Space, "a", Space>>} THEN <<"A">>
  ELSE IF key = <<"b">> THEN <<"B">> ELSE <<"C", "B">>

\* a project the queries see has the key
KeyInUse(key) ==
  \E i \in DOMAIN projects : projects[i].key = key /\ ~projects[i].deleted

\* C23: Create looks up the requested key trimmed and in upper case; when a
\* project with that key exists the call fails with ErrProjectKeyExists and
\* the projects table is left as it was; a project that is created carries
\* that key; and no two rows of the projects table ever have the same key,
\* however the Create calls interleave.
ProjectKeysUnique ==
  /\ [](\A i \in DOMAIN projects, j \in DOMAIN projects :
          i # j => projects[i].key # projects[j].key)
  /\ [][\A p \in Procs :
          /\ \A key \in KeyInputs :
               ProjectCreateCall(p, key) =>
                 /\ procs'[p].key = Normalised(key)
                 /\ projects' = projects
                 /\ KeyInUse(Normalised(key)) =>
                      procs'[p].pc = "idle" /\ procs'[p].res = ErrProjectKeyExists
          /\ ProjectCreateInsert(p) =>
               \/ projects' = projects /\ procs'[p].res # Ok
               \/ /\ projects' = Append(projects, ProjectRow(procs[p].key))
                  /\ procs'[p].res = Ok]_vars

\* a project was created under the key B asked for as "b", and another
\* Create asking for "b" was refused with ErrProjectKeyExists
ProjectCreatedAndRefused ==
  \E p \in Procs, q \in Procs :
    /\ Idle(p) /\ procs[p].op = "CreateProject" /\ procs[p].res = Ok
    /\ procs[p].key = <<"B">>
    /\ Idle(q) /\ procs[q].op = "CreateProject"
    /\ procs[q].res = ErrProjectKeyExists /\ procs[q].key = <<"B">>
    /\ projects = << ProjectRow(<<"A">>), ProjectRow(<<"B">>) >>

(***************************************************************************)
(* The two ledgers and the sprint reference of the items.                  *)
(***************************************************************************)
\* the places of the ItemAdded and ItemRemoved rows of item i on the ledger
\* of sprint s
MembershipRows(s, i) ==
  {k \in DOMAIN sprintHistory :
     /\ sprintHistory[k].action \in {SprintActionItemAdded, SprintActionItemRemoved}
     /\ sprintHistory[k].sprint = s /\ sprintHistory[k].item = i}

\* the most recent of them is ItemAdded
LastIsAdded(s, i) ==
  \E k \in MembershipRows(s, i) :
    /\ \A j \in MembershipRows(s, i) : j <= k
    /\ sprintHistory[k].action = SprintActionItemAdded

\* the SprintAssigned (SprintRemoved) rows of item i that name sprint s
ItemRowsFor(s, i, action) ==
  {k \in DOMAIN itemHistory :
     /\ itemHistory[k].action = action /\ itemHistory[k].item = i
     /\ IF action = ItemActionSprintAssigned
          THEN itemHistory[k].new = s ELSE itemHistory[k].old = s}

SprintRowsFor(s, i, action) ==
  {k \in MembershipRows(s, i) : sprintHistory[k].action = action}

\* C24: whenever no call is running, an item's sprint reference is S exactly
\* when the latest ItemAdded/ItemRemoved row for the item on the ledger of S
\* is ItemAdded, and the item ledger holds one SprintAssigned row for every
\* ItemAdded row and one SprintRemoved row for every ItemRemoved row.
LedgersAgreeWithItems ==
  (\A p \in Procs : Idle(p)) =>
    \A i \in ItemIds, s \in 1..2 :
      items[i].exists =>
        /\ (items[i].sprint = s) <=> LastIsAdded(s, i)
        /\ Cardinality(ItemRowsFor(s, i, ItemActionSprintAssigned))
             = Cardinality(SprintRowsFor(s, i, SprintActionItemAdded))
        /\ Cardinality(ItemRowsFor(s, i, ItemActionSprintRemoved))
             = Cardinality(SprintRowsFor(s, i, SprintActionItemRemoved))

(***************************************************************************)
(* The rows of an Update.                                                  *)
(***************************************************************************)
\* the columns an update request can change, by the field of the row
ColumnOf ==
  [type |-> "type", priority |-> "priority", status |-> "status",
   points |-> "story_points", labels |-> "labels", sprint |-> "sprint_id"]

\* C25: when the Update call has returned, the item ledger holds one
\* Updated row, with the column's name and its old and new value, for each
\* column whose stored value differs from the one before the call, and no
\* other row: none for a column sent with the value it already had.
UpdateRecordsChangedFields ==
  (Idle("w1") /\ procs["w1"].op = "UpdateItem" /\ procs["w1"].res = Ok) =>
    LET changed == {f \in DOMAIN ColumnOf : UpdatedItem[f] # items[1][f]}
    IN /\ Len(itemHistory) = Cardinality(changed)
       /\ \A f \in changed :
            \E k \in DOMAIN itemHistory :
              /\ itemHistory[k].action = ItemActionUpdated
              /\ itemHistory[k].item = 1
              /\ itemHistory[k].field = ColumnOf[f]
              /\ itemHistory[k].old = UpdatedItem[f]
              /\ itemHistory[k].new = items[1][f]

(***************************************************************************)
(* The row of a sprint Update.                                             *)
(***************************************************************************)
SprintColumnOf ==
  [name |-> "name", goal |-> "goal", start |-> "start_date", end |-> "end_date"]

\* C26: when the Update call on sprint 1 has returned, the sprint ledger
\* holds one more row, tagged Created, whose new value is the map from each
\* column the call changed to its old and new value, if the call changed
\* the stored name, goal, start date or end date; and no more row than
\* before if the call changed none of them.
SprintUpdateRecordsOneRow ==
  (Idle("w1") /\ procs["w1"].op = "Update" /\ procs["w1"].res = Ok
     /\ procs["w1"].sid = 1) =>
    LET changed == {f \in DOMAIN SprintColumnOf : UpdatedSprint[f] # sprints[1][f]}
        before == Len(SeedHistory(1, UpdatedSprint))
                    + Len(SeedHistory(2, SeedSprint("alpha", SprintStatusActive, NoValue)))
    IN IF changed = {} THEN Len(sprintHistory) = before
       ELSE /\ Len(sprintHistory) = before + 1
            /\ sprintHistory[before + 1].action = SprintActionCreated
            /\ sprintHistory[before + 1].sprint = 1
            /\ sprintHistory[before + 1].new
                 = {<<SprintColumnOf[f], UpdatedSprint[f], sprints[1][f]>> : f \in changed}

(***************************************************************************)
(* The rows of AddLabel and RemoveLabel.                                   *)
(***************************************************************************)
\* C27: an AddLabel or RemoveLabel call of the one client appends its
\* LabelAdded or LabelRemoved row only if the labels of the item are no
\* longer the ones the call found: none for a label the item already has,
\* none for the removal of a label it does not have.
LabelRowsOnlyOnChange ==
  [][\A p \in Procs :
       (AddLabelRecordHistory(p) \/ RemoveLabelRecordHistory(p))
         => (Len(itemHistory') > Len(itemHistory)
               => items[procs[p].iid].labels # procs[p].item.labels)]_vars

(***************************************************************************)
(* The labels an item stores.                                              *)
(***************************************************************************)
\* C28: after any sequence of Create, Update, AddLabel and RemoveLabel calls
\* no stored item holds the same label twice.
StoredLabelsAreDistinct ==
  \A i \in ItemIds :
    items[i].exists =>
      \A j, k \in DOMAIN items[i].labels :
        j # k => items[i].labels[j] # items[i].labels[k]

\* C29: for every existing item, one created without labels included, an
\* AddLabel of a label that is not blank which succeeds ends with the label
\* (as trimmed) among the labels the item stores, and a RemoveLabel that
\* succeeds ends with its label absent from them.
AddedLabelIsStored ==
  [][\A p \in Procs :
       /\ AddLabelRecordHistory(p) /\ procs'[p].res = Ok
            => procs[p].req.label \in Range(items'[procs[p].iid].labels)
       /\ RemoveLabelRecordHistory(p) /\ procs'[p].res = Ok
            => procs[p].req.label \notin Range(items'[procs[p].iid].labels)]_vars

(***************************************************************************)
(* The lifecycle rows of a sprint and its stored status.                   *)
(***************************************************************************)
\* the Started, Completed and Cancelled rows of sprint s, oldest first
StatusRows(s) ==
  SelectSeq(sprintHistory,
            LAMBDA r : r.action \in {SprintActionStarted, SprintActionCompleted,
                                     SprintActionCancelled}
                       /\ r.sprint = s)

\* C30: once the Start, Complete and Cancel calls have returned, however they
\* interleaved, the ledger of every sprint holds at most one Started row and
\* at most one row that is Completed or Cancelled, and the sprint is Active,
\* Completed or Cancelled exactly when the latest of these rows is Started,
\* Completed or Cancelled.
LifecycleRowsMatchStatus ==
  (\A p \in Procs : Idle(p)) =>
    \A s \in SprintIds :
      sprints[s].exists =>
        LET rows == StatusRows(s)
            last == IF rows = << >> THEN "none" ELSE rows[Len(rows)].action
        IN /\ Cardinality({k \in DOMAIN rows :
                             rows[k].action = SprintActionStarted}) <= 1
           /\ Cardinality({k \in DOMAIN rows :
                             rows[k].action # SprintActionStarted}) <= 1
           /\ sprints[s].status = SprintStatusActive <=> last = SprintActionStarted
           /\ sprints[s].status = SprintStatusCompleted <=> last = SprintActionCompleted
           /\ sprints[s].status = SprintStatusCancelled <=> last = SprintActionCancelled

====
